---------------------------- MODULE Spec2Model ----------------------------
(***************************************************************************)
(* depsort: which declared runtime dependencies can move to                *)
(* devDependencies.  The model covers the file classifier                  *)
(* (file-classifier.ts), the scan loop (import-scanner.ts) and the         *)
(* dependency analyzer (analyzer.ts).                                      *)
(*                                                                         *)
(* Representation of strings.  A directory string such as 'src' or         *)
(* 'packages/test' is the sequence of its '/'-separated segments; a file   *)
(* name such as 'app.test.ts' is the sequence of its '.'-separated parts   *)
(* (a leading dot gives an empty first part: '.eslintrc.js' is             *)
(* <<"", "eslintrc", "js">>).  A file path is the record of its            *)
(* root-relative directory segments and the parts of its file name, so     *)
(* that startsWith / includes / basename / dirname / the regular           *)
(* expressions of the source are computed on the structure of the path.    *)
(***************************************************************************)
EXTENDS Integers, Sequences, FiniteSets, TLC

\* ------------------------------------------------------------------ bounds
\* Largest number of import records one scan collects.
MaxRecords == 3

\* Largest number of directory segments of a classified path.
MaxDepth == 2

\* --------------------------------------------------------- sequence helpers
Range(s) == {s[i] : i \in 1..Len(s)}

Last(s) == s[Len(s)]

\* String.prototype.startsWith(dir + '/') on segment sequences: the segments
\* of dir are a prefix of the directory segments of the path
StartsWithDir(dirs, dir) ==
    /\ Len(dir) >= 1
    /\ Len(dirs) >= Len(dir)
    /\ SubSeq(dirs, 1, Len(dir)) = dir

\* String.prototype.includes('/' + dir + '/'): the segments of dir occur in
\* the directory segments of the path, after at least one other segment
IncludesDir(dirs, dir) ==
    /\ Len(dir) >= 1
    /\ \E i \in 2..Len(dirs) :
          /\ i + Len(dir) - 1 <= Len(dirs)
          /\ SubSeq(dirs, i, i + Len(dir) - 1) = dir

\* the directory '.'
DotDir == <<".">>

\* path.dirname(normalizedPath): '.' for a file directly in the root
DirnameOf(filePath) == IF filePath.dir = <<>> THEN DotDir ELSE filePath.dir

\* the /i flag of the regular expressions: lower-casing of a name part
Lower(part) ==
    CASE part = "TEST" -> "test"
      [] part = "Spec" -> "spec"
      [] part = "TS" -> "ts"
      [] part = "Jest" -> "jest"
      [] OTHER -> part

\* ----------------------------------------------------- file-classifier.ts
\* mutant: the source-map alternative of the test pattern is missing
isTestFileName_NoMap(base) ==
    /\ Len(base) >= 3
    /\ Lower(base[Len(base) - 1]) \in {"test", "spec"}
    /\ Lower(base[Len(base)]) \in {"ts", "tsx", "js", "jsx"}

TestWords == {"test", "spec"}

ScriptExts == {"ts", "tsx", "js", "jsx"}

\* /\.(test|spec)\.(ts|tsx|js|jsx)$/i  or the same followed by \.map
isTestFileName(base) ==
    \/ /\ Len(base) >= 3
       /\ Lower(base[Len(base) - 1]) \in TestWords
       /\ Lower(base[Len(base)]) \in ScriptExts
    \/ /\ Len(base) >= 4
       /\ Lower(base[Len(base) - 2]) \in TestWords
       /\ Lower(base[Len(base) - 1]) \in ScriptExts
       /\ Lower(base[Len(base)]) = "map"

ConfigTools ==
    {"jest", "vitest", "vite", "webpack", "rollup", "esbuild", "tsup", "tsx",
     "ts-node", "babel", "eslint", "prettier"}

ConfigDotTools == {"prettierrc", "eslintrc"}

ConfigExts == {"js", "ts", "json", "mjs", "cjs"}

RcNames == {"eslintrc", "prettierrc", "babelrc", "nycrc"}

\* the three regular expressions / comparisons of isConfigFile
isConfigFileName(base) ==
    \/ /\ Len(base) = 2
       /\ Lower(base[1]) \in ConfigTools
       /\ Lower(base[2]) \in ConfigExts
    \/ /\ Len(base) = 3
       /\ Lower(base[1]) \in ConfigTools
       /\ Lower(base[2]) = "config"
       /\ Lower(base[3]) \in ConfigExts
    \/ /\ Len(base) = 3
       /\ base[1] = ""
       /\ Lower(base[2]) \in ConfigDotTools
       /\ Lower(base[3]) \in ConfigExts
    \/ /\ Len(base) = 4
       /\ base[1] = ""
       /\ Lower(base[2]) \in ConfigDotTools
       /\ Lower(base[3]) = "config"
       /\ Lower(base[4]) \in ConfigExts
    \/ /\ Len(base) >= 2
       /\ base[1] = ""
       /\ Lower(base[2]) \in RcNames
    \/ base = <<"tsconfig", "json">>
    \/ base = <<"package", "json">>

\* fileName.endsWith('.d.ts')
isTypeDefinitionName(base) ==
    /\ Len(base) >= 3
    /\ base[Len(base) - 1] = "d"
    /\ base[Len(base)] = "ts"

\* mutant: no file is ever found under a source directory
isInSourceDir_Never(filePath, config) == FALSE

isInSourceDir(filePath, config) ==
    \/ /\ DotDir \in Range(config.sourceDirs)
       /\ \/ Len(filePath.dir) + 1 = 1
          \/ (Len(filePath.dir) >= 1 /\ filePath.dir[1] = ".")
    \/ \E i \in 1..Len(config.sourceDirs) :
          \/ config.sourceDirs[i] = DotDir
          \/ StartsWithDir(filePath.dir, config.sourceDirs[i])
          \/ StartsWithDir(filePath.dir, DotDir \o config.sourceDirs[i])

isInBuildDir(filePath, config) ==
    \E i \in 1..Len(config.buildDirs) :
        \/ StartsWithDir(filePath.dir, config.buildDirs[i])
        \/ StartsWithDir(filePath.dir, DotDir \o config.buildDirs[i])

isInTestDir(filePath, config) ==
    \E i \in 1..Len(config.testDirs) :
        \/ IncludesDir(filePath.dir, config.testDirs[i])
        \/ StartsWithDir(filePath.dir, config.testDirs[i])
        \/ DirnameOf(filePath) = config.testDirs[i]

BoolStr(b) == IF b THEN "true" ELSE "false"

\* mutant: the test rule is tried before the build rule
classifyFile_TestBeforeBuild(filePath, config) ==
    LET inBuild == isInBuildDir(filePath, config)
        inTest == isInTestDir(filePath, config)
        isTestFile == isTestFileName(filePath.base)
        isConfigFile == isConfigFileName(filePath.base)
        isInSource == isInSourceDir(filePath, config)
        isProduction ==
            isInSource /\ ~isTestFile /\ ~isConfigFile /\ ~inBuild
    IN  IF inTest \/ isTestFile THEN
            [isProduction |-> FALSE, isTest |-> TRUE, isBuild |-> FALSE,
             isConfig |-> FALSE,
             reason |-> IF inTest THEN <<"File is in test directory">>
                        ELSE <<"File matches test pattern">>]
        ELSE IF inBuild THEN
            [isProduction |-> FALSE, isTest |-> FALSE, isBuild |-> TRUE,
             isConfig |-> FALSE, reason |-> <<"File is in build directory">>]
        ELSE IF isConfigFile /\ ~isInSource THEN
            [isProduction |-> FALSE, isTest |-> FALSE, isBuild |-> FALSE,
             isConfig |-> TRUE,
             reason |-> <<"File is a configuration file">>]
        ELSE
            [isProduction |-> isProduction,
             isTest |-> inTest \/ isTestFile,
             isBuild |-> inBuild,
             isConfig |-> isConfigFile /\ ~isInSource,
             reason |->
                IF isProduction THEN <<"File is in source directory">>
                ELSE IF isTypeDefinitionName(filePath.base)
                THEN <<"File is a type definition">>
                ELSE <<"File classification: source=", BoolStr(isInSource),
                       ", test=", BoolStr(isTestFile \/ inTest),
                       ", config=", BoolStr(isConfigFile)>>]

classifyFile(filePath, config) ==
    LET inBuild == isInBuildDir(filePath, config)
        inTest == isInTestDir(filePath, config)
        isTestFile == isTestFileName(filePath.base)
        isConfigFile == isConfigFileName(filePath.base)
        isInSource == isInSourceDir(filePath, config)
        isTypeDefinition == isTypeDefinitionName(filePath.base)
        isProduction ==
            isInSource /\ ~isTestFile /\ ~isConfigFile /\ ~inBuild
    IN  IF inBuild THEN
            [isProduction |-> FALSE, isTest |-> FALSE, isBuild |-> TRUE,
             isConfig |-> FALSE, reason |-> <<"File is in build directory">>]
        ELSE IF inTest \/ isTestFile THEN
            [isProduction |-> FALSE, isTest |-> TRUE, isBuild |-> FALSE,
             isConfig |-> FALSE,
             reason |-> IF inTest THEN <<"File is in test directory">>
                        ELSE <<"File matches test pattern">>]
        ELSE IF isConfigFile /\ ~isInSource THEN
            [isProduction |-> FALSE, isTest |-> FALSE, isBuild |-> FALSE,
             isConfig |-> TRUE,
             reason |-> <<"File is a configuration file">>]
        ELSE
            [isProduction |-> isProduction,
             isTest |-> inTest \/ isTestFile,
             isBuild |-> inBuild,
             isConfig |-> isConfigFile /\ ~isInSource,
             reason |->
                IF isProduction THEN <<"File is in source directory">>
                ELSE IF isTypeDefinition THEN <<"File is a type definition">>
                ELSE <<"File classification: source=", BoolStr(isInSource),
                       ", test=", BoolStr(isTestFile \/ inTest),
                       ", config=", BoolStr(isConfigFile)>>]


\* path.extname(filePath): the last part, when the name has a dot that is not
\* its first character; "" stands for no extension
Extname(base) ==
    IF Len(base) >= 2 /\ ~(Len(base) = 2 /\ base[1] = "") THEN Last(base)
    ELSE ""

validExtensions == {"ts", "tsx", "js", "jsx", "mjs", "cjs"}

\* normalizedPath.includes(name + '/'): some directory segment ends with name
\* (the segments of the model are whole names)
IncludesSegment(dirs, name) == \E i \in 1..Len(dirs) : dirs[i] = name

shouldAnalyzeFile(filePath, config) ==
    /\ ~IncludesSegment(filePath.dir, "node_modules")
    /\ ~isInBuildDir(filePath, config)
    /\ ~IncludesSegment(filePath.dir, "coverage")
    /\ Extname(filePath.base) \in validExtensions

\* ------------------------------------------------------------ analyzer.ts
\* the value of a property name that is a canonical integer index ('7',
\* '12'), -1 for every other name
IntegerIndexValue(name) ==
    CASE name = "7" -> 7
      [] name = "12" -> 12
      [] OTHER -> -1

\* names sorted by ascending integer value
RECURSIVE AscendingIndexOrder(_)
AscendingIndexOrder(names) ==
    IF names = <<>> THEN <<>>
    ELSE LET least ==
                CHOOSE n \in Range(names) :
                    \A o \in Range(names) :
                        IntegerIndexValue(n) <= IntegerIndexValue(o)
         IN  <<least>> \o AscendingIndexOrder(
                             SelectSeq(names, LAMBDA n : n # least))

\* mutant: the names in the order of the manifest, whatever they are
ObjectKeys_InsertionOrder(obj) == [i \in 1..Len(obj) |-> obj[i].name]

\* Object.keys(obj) of a dependency map (an ordinary object made by
\* JSON.parse): the integer-index names in ascending numeric order, then the
\* other names in insertion order
ObjectKeys(obj) ==
    LET names == [i \in 1..Len(obj) |-> obj[i].name]
    IN  AscendingIndexOrder(
            SelectSeq(names, LAMBDA n : IntegerIndexValue(n) >= 0))
        \o SelectSeq(names, LAMBDA n : IntegerIndexValue(n) < 0)

\* config.packageJson.dependencies || {}
DependenciesOrEmpty(config) ==
    IF config.packageJson.hasDependencies
    THEN config.packageJson.dependencies
    ELSE <<>>

RECURSIVE ReverseSeq(_)
ReverseSeq(s) == IF s = <<>> THEN <<>> ELSE Append(ReverseSeq(Tail(s)), Head(s))

\* mutant: the group is built with unshift instead of push
importsByPackage_Unshift(imports, packageName) ==
    ReverseSeq(SelectSeq(imports, LAMBDA imp : imp.packageName = packageName))

\* importsByPackage.get(packageName) || []
importsByPackage(imports, packageName) ==
    SelectSeq(imports, LAMBDA imp : imp.packageName = packageName)

\* the accumulators of analyzePackageUsage before its loop
InitialUsage ==
    [usedInProduction |-> FALSE, usedInDev |-> FALSE,
     hasRuntimeInProduction |-> FALSE, hasTypeOnlyInProduction |-> FALSE,
     allImportsAreTypeOnly |-> TRUE]

\* mutant: a record of a test file counts as a production record
ClassifyImport_TestIsProduction(acc, imp, config) ==
    LET fileClassification == classifyFile(imp.filePath, config)
    IN  IF fileClassification.isProduction \/ fileClassification.isTest THEN
            [acc EXCEPT
               !.usedInProduction = TRUE,
               !.hasTypeOnlyInProduction = IF imp.isTypeOnly THEN TRUE ELSE @,
               !.hasRuntimeInProduction = IF imp.isTypeOnly THEN @ ELSE TRUE,
               !.allImportsAreTypeOnly = IF imp.isTypeOnly THEN @ ELSE FALSE]
        ELSE IF fileClassification.isConfig \/ fileClassification.isBuild THEN
            [acc EXCEPT
               !.usedInDev = TRUE,
               !.allImportsAreTypeOnly = IF imp.isTypeOnly THEN @ ELSE FALSE]
        ELSE acc

\* mutant: the flags are assigned from the current record instead of being
\* accumulated, so the last record decides usedInProduction
ClassifyImport_LastRecordWins(acc, imp, config) ==
    LET fileClassification == classifyFile(imp.filePath, config)
    IN  IF fileClassification.isProduction THEN
            [acc EXCEPT
               !.usedInProduction = TRUE,
               !.hasTypeOnlyInProduction = IF imp.isTypeOnly THEN TRUE ELSE @,
               !.hasRuntimeInProduction = IF imp.isTypeOnly THEN @ ELSE TRUE,
               !.allImportsAreTypeOnly = IF imp.isTypeOnly THEN @ ELSE FALSE]
        ELSE IF \/ fileClassification.isTest
                \/ fileClassification.isConfig
                \/ fileClassification.isBuild THEN
            [acc EXCEPT
               !.usedInProduction = FALSE,
               !.usedInDev = TRUE,
               !.allImportsAreTypeOnly = IF imp.isTypeOnly THEN @ ELSE FALSE]
        ELSE acc

\* mutant: a type-only record in a production file is not noted
ClassifyImport_TypeOnlyUntracked(acc, imp, config) ==
    LET fileClassification == classifyFile(imp.filePath, config)
    IN  IF fileClassification.isProduction THEN
            [acc EXCEPT
               !.usedInProduction = TRUE,
               !.hasRuntimeInProduction = IF imp.isTypeOnly THEN @ ELSE TRUE,
               !.allImportsAreTypeOnly = IF imp.isTypeOnly THEN @ ELSE FALSE]
        ELSE IF \/ fileClassification.isTest
                \/ fileClassification.isConfig
                \/ fileClassification.isBuild THEN
            [acc EXCEPT
               !.usedInDev = TRUE,
               !.allImportsAreTypeOnly = IF imp.isTypeOnly THEN @ ELSE FALSE]
        ELSE acc

\* one iteration of the loop of analyzePackageUsage
ClassifyImport(acc, imp, config) ==
    LET fileClassification == classifyFile(imp.filePath, config)
    IN  IF fileClassification.isProduction THEN
            [acc EXCEPT
               !.usedInProduction = TRUE,
               !.hasTypeOnlyInProduction = IF imp.isTypeOnly THEN TRUE ELSE @,
               !.hasRuntimeInProduction = IF imp.isTypeOnly THEN @ ELSE TRUE,
               !.allImportsAreTypeOnly = IF imp.isTypeOnly THEN @ ELSE FALSE]
        ELSE IF \/ fileClassification.isTest
                \/ fileClassification.isConfig
                \/ fileClassification.isBuild THEN
            [acc EXCEPT
               !.usedInDev = TRUE,
               !.allImportsAreTypeOnly = IF imp.isTypeOnly THEN @ ELSE FALSE]
        ELSE acc

\* the loop of analyzePackageUsage over the package's records, in order
RECURSIVE FoldImports(_, _, _)
FoldImports(acc, imports, config) ==
    IF imports = <<>> THEN acc
    ELSE FoldImports(ClassifyImport(acc, Head(imports), config),
                     Tail(imports), config)

\* mutant: the second branch forgets '&& !hasRuntimeInProduction'
DecideMove_TypeOnlyWins(acc) ==
    IF ~acc.usedInProduction THEN
        [canMove |-> TRUE, reason |-> "Only used in dev/test/config files"]
    ELSE IF acc.hasTypeOnlyInProduction THEN
        [canMove |-> TRUE,
         reason |-> "Only type-only imports in production code"]
    ELSE IF acc.hasRuntimeInProduction THEN
        [canMove |-> FALSE,
         reason |-> "Has runtime imports in production code"]
    ELSE
        [canMove |-> FALSE, reason |-> "Used in production code"]

\* mutant: the type-only branch is missing
DecideMove_NoTypeOnlyBranch(acc) ==
    IF ~acc.usedInProduction THEN
        [canMove |-> TRUE, reason |-> "Only used in dev/test/config files"]
    ELSE IF acc.hasRuntimeInProduction THEN
        [canMove |-> FALSE,
         reason |-> "Has runtime imports in production code"]
    ELSE
        [canMove |-> FALSE, reason |-> "Used in production code"]

\* the if / else-if chain that decides canMove and reason
DecideMove(acc) ==
    IF ~acc.usedInProduction THEN
        [canMove |-> TRUE, reason |-> "Only used in dev/test/config files"]
    ELSE IF acc.hasTypeOnlyInProduction /\ ~acc.hasRuntimeInProduction THEN
        [canMove |-> TRUE,
         reason |-> "Only type-only imports in production code"]
    ELSE IF acc.hasRuntimeInProduction THEN
        [canMove |-> FALSE,
         reason |-> "Has runtime imports in production code"]
    ELSE
        [canMove |-> FALSE, reason |-> "Used in production code"]

\* mutant: the early return for a package without records is missing
analyzePackageUsage_NoEmptyCheck(packageName, imports, config) ==
    LET acc == FoldImports(InitialUsage, imports, config)
        verdict == DecideMove(acc)
    IN  [packageName |-> packageName,
         imports |-> imports,
         usedInProduction |-> acc.usedInProduction,
         usedInDev |-> acc.usedInDev,
         onlyTypeImports |-> acc.allImportsAreTypeOnly /\ Len(imports) > 0,
         canMoveToDevDependencies |-> verdict.canMove,
         reason |-> verdict.reason]

analyzePackageUsage(packageName, imports, config) ==
    IF Len(imports) = 0 THEN
        [packageName |-> packageName,
         imports |-> <<>>,
         usedInProduction |-> FALSE,
         usedInDev |-> FALSE,
         onlyTypeImports |-> FALSE,
         canMoveToDevDependencies |-> FALSE,
         reason |->
           "Package not found in imports (may be used in scripts or other ways)"]
    ELSE
        LET acc == FoldImports(InitialUsage, imports, config)
            verdict == DecideMove(acc)
        IN  [packageName |-> packageName,
             imports |-> imports,
             usedInProduction |-> acc.usedInProduction,
             usedInDev |-> acc.usedInDev,
             onlyTypeImports |-> acc.allImportsAreTypeOnly /\ Len(imports) > 0,
             canMoveToDevDependencies |-> verdict.canMove,
             reason |-> verdict.reason]

\* mutant: without a dependencies field, the imported packages are analysed
analyzeDependencies_ImportedPackages(config, imports) ==
    LET dependencies ==
            IF config.packageJson.hasDependencies
            THEN ObjectKeys(DependenciesOrEmpty(config))
            ELSE [i \in 1..Len(imports) |-> imports[i].packageName]
        packageUsages ==
            [i \in 1..Len(dependencies) |->
                analyzePackageUsage(dependencies[i],
                                    importsByPackage(imports, dependencies[i]),
                                    config)]
        packagesToMove ==
            SelectSeq(packageUsages, LAMBDA pkg : pkg.canMoveToDevDependencies)
        packagesToKeep ==
            SelectSeq(packageUsages, LAMBDA pkg : ~pkg.canMoveToDevDependencies)
    IN  [packagesToMove |-> packagesToMove,
         packagesToKeep |-> packagesToKeep,
         totalDependencies |-> Len(dependencies),
         canMoveCount |-> Len(packagesToMove)]

\* mutant: packagesToKeep is not filtered
analyzeDependencies_KeepAll(config, imports) ==
    LET dependencies == ObjectKeys(DependenciesOrEmpty(config))
        packageUsages ==
            [i \in 1..Len(dependencies) |->
                analyzePackageUsage(dependencies[i],
                                    importsByPackage(imports, dependencies[i]),
                                    config)]
        packagesToMove ==
            SelectSeq(packageUsages, LAMBDA pkg : pkg.canMoveToDevDependencies)
    IN  [packagesToMove |-> packagesToMove,
         packagesToKeep |-> packageUsages,
         totalDependencies |-> Len(dependencies),
         canMoveCount |-> Len(packagesToMove)]

analyzeDependencies(config, imports) ==
    LET dependencies == ObjectKeys(DependenciesOrEmpty(config))
        packageUsages ==
            [i \in 1..Len(dependencies) |->
                analyzePackageUsage(dependencies[i],
                                    importsByPackage(imports, dependencies[i]),
                                    config)]
        packagesToMove ==
            SelectSeq(packageUsages, LAMBDA pkg : pkg.canMoveToDevDependencies)
        packagesToKeep ==
            SelectSeq(packageUsages, LAMBDA pkg : ~pkg.canMoveToDevDependencies)
    IN  [packagesToMove |-> packagesToMove,
         packagesToKeep |-> packagesToKeep,
         totalDependencies |-> Len(dependencies),
         canMoveCount |-> Len(packagesToMove)]

\* ------------------------------------------------------ import-scanner.ts
\* the ignore list of the glob call of findFilesToAnalyze (no --exclude):
\* node_modules/**, <buildDir>/**, coverage/**, dist/**
GlobIgnored(filePath, config) ==
    \/ StartsWithDir(filePath.dir, <<"node_modules">>)
    \/ \E i \in 1..Len(config.buildDirs) :
          StartsWithDir(filePath.dir, config.buildDirs[i])
    \/ StartsWithDir(filePath.dir, <<"coverage">>)
    \/ StartsWithDir(filePath.dir, <<"dist">>)

\* findFilesToAnalyze: the files the glob patterns give, in the order the
\* glob gives them, without the ignored ones, filtered by shouldAnalyzeFile
findFilesToAnalyze(config, tree) ==
    SelectSeq(tree, LAMBDA f : ~GlobIgnored(f, config)
                                /\ shouldAnalyzeFile(f, config))

\* extractImportsFromFile: the records of the external references of a file,
\* one per reference, in the order of the references (reference k on line k)
extractImportsFromFile(filePath, refs) ==
    [k \in 1..Len(refs) |->
        [packageName |-> refs[k].packageName,
         isTypeOnly |-> refs[k].isTypeOnly,
         filePath |-> filePath,
         line |-> k,
         column |-> 0]]

\* ---------------------------------------------------------- package-json.ts
\* A manifest object: name stands for the fields the program never touches;
\* hasDependencies / hasDevDependencies tell whether the object has the key;
\* a map is the sequence of its entries [name, version] in insertion order.
PackageJson(name, hasDependencies, dependencies, hasDevDependencies, devDependencies) ==
    [name |-> name,
     hasDependencies |-> hasDependencies, dependencies |-> dependencies,
     hasDevDependencies |-> hasDevDependencies,
     devDependencies |-> devDependencies]

\* obj has the key
HasKey(obj, key) == \E i \in 1..Len(obj) : obj[i].name = key

\* obj[key] of a key obj has
ValueOf(obj, key) ==
    obj[CHOOSE i \in 1..Len(obj) : obj[i].name = key].version

\* obj[key] = value
SetKey(obj, key, value) ==
    IF HasKey(obj, key)
    THEN [i \in 1..Len(obj) |->
            IF obj[i].name = key THEN [name |-> key, version |-> value]
            ELSE obj[i]]
    ELSE Append(obj, [name |-> key, version |-> value])

\* delete obj[key]
DeleteKey(obj, key) == SelectSeq(obj, LAMBDA entry : entry.name # key)

\* !version, for version = dependencies[packageName]: undefined or ''
NoVersion(dependencies, packageName) ==
    \/ ~HasKey(dependencies, packageName)
    \/ ValueOf(dependencies, packageName) = ""

\* one iteration of the loop of movePackagesToDevDependencies
MoveOne(acc, packageName) ==
    IF NoVersion(acc.dependencies, packageName) THEN acc
    ELSE LET version == ValueOf(acc.dependencies, packageName)
         IN  [dependencies |-> DeleteKey(acc.dependencies, packageName),
              devDependencies |->
                 SetKey(acc.devDependencies, packageName, version),
              moved |-> Append(acc.moved, [name |-> packageName,
                                           version |-> version])]

RECURSIVE MoveAll(_, _)
MoveAll(acc, packagesToMove) ==
    IF packagesToMove = <<>> THEN acc
    ELSE MoveAll(MoveOne(acc, Head(packagesToMove)), Tail(packagesToMove))

movePackagesToDevDependencies(packageJson, packagesToMove) ==
    LET start ==
            [dependencies |->
                IF packageJson.hasDependencies THEN packageJson.dependencies
                ELSE <<>>,
             devDependencies |->
                IF packageJson.hasDevDependencies
                THEN packageJson.devDependencies
                ELSE <<>>,
             moved |-> <<>>]
        end == MoveAll(start, packagesToMove)
    IN  [updated |->
            [packageJson EXCEPT
               !.hasDependencies = Len(end.dependencies) > 0,
               !.dependencies = end.dependencies,
               !.hasDevDependencies = TRUE,
               !.devDependencies = end.devDependencies],
         moved |-> end.moved]

\* writePackageJson: the object written to the file whose parsed content is
\* original; { ...original, ...packageJson } keeps the keys of original
\* that packageJson does not have
writePackageJson(original, packageJson) ==
    [name |-> packageJson.name,
     hasDependencies |->
        original.hasDependencies \/ packageJson.hasDependencies,
     dependencies |->
        IF packageJson.hasDependencies THEN packageJson.dependencies
        ELSE IF original.hasDependencies THEN original.dependencies
        ELSE <<>>,
     hasDevDependencies |->
        original.hasDevDependencies \/ packageJson.hasDevDependencies,
     devDependencies |->
        IF packageJson.hasDevDependencies THEN packageJson.devDependencies
        ELSE IF original.hasDevDependencies THEN original.devDependencies
        ELSE <<>>]

\* ----------------------------------------------------------------- inputs
File(dir, base) == [dir |-> dir, base |-> base]

AppTs == File(<<"src">>, <<"app", "ts">>)

AppTestTs == File(<<"test">>, <<"app", "test", "ts">>)

ScriptTs == File(<<"scripts">>, <<"x", "ts">>)

DistJs == File(<<"dist">>, <<"out", "js">>)

\* the files the glob calls list, in two of the orders they may come in
\* (the order depends on the patterns, --include, and the file system)
ProjectTrees ==
    {<<AppTs, AppTestTs, ScriptTs, DistJs>>,
     <<DistJs, ScriptTs, AppTestTs, AppTs>>}

Layout(sourceDirs, testDirs, buildDirs) ==
    [sourceDirs |-> sourceDirs, testDirs |-> testDirs, buildDirs |-> buildDirs]

\* layouts analyzeProject can detect
Layouts ==
    {Layout(<<<<"src">>>>, <<<<"test">>>>, <<>>),
     Layout(<<DotDir>>, <<>>, <<<<"dist">>>>),
     Layout(<<<<"src">>>>, <<>>, <<<<"scripts">>>>)}

Dep(name, version) == [name |-> name, version |-> version]

Lodash == Dep("lodash", "^4.0.0")

TypesNode == Dep("@types/node", "^20.0.0")

\* two packages whose names are integer indices
Seven == Dep("7", "^1.0.0")

Twelve == Dep("12", "^1.0.0")

Manifest(hasDependencies, dependencies) ==
    [hasDependencies |-> hasDependencies, dependencies |-> dependencies]

\* package.json contents: no dependencies field, an empty one, maps
\* declaring one or two packages in either order, and a map with two
\* packages named by integers
Manifests ==
    {Manifest(FALSE, <<>>), Manifest(TRUE, <<>>),
     Manifest(TRUE, <<Lodash>>),
     Manifest(TRUE, <<Lodash, TypesNode>>),
     Manifest(TRUE, <<TypesNode, Lodash>>),
     Manifest(TRUE, <<Lodash, Twelve, Seven>>)}

Config(packageJson, layout) ==
    [packageJson |-> packageJson,
     sourceDirs |-> layout.sourceDirs,
     testDirs |-> layout.testDirs,
     buildDirs |-> layout.buildDirs]

\* the packages a file of the project may refer to
ImportedPackages == {"lodash", "@types/node"}

References == [packageName : ImportedPackages, isTypeOnly : BOOLEAN]

\* the sequences of at most n references
RefSeqs(n) == UNION {[1..k -> References] : k \in 0..n}

\* -------------------------------------- source strings of import-scanner.ts
\* a source string is the sequence of its characters; "a" stands for the
\* characters that no operation of the scanner looks at
Chars == {"a", "@", "/", ".", "?", "#"}

\* String.prototype.startsWith(ch)
StartsWithChar(s, ch) == Len(s) >= 1 /\ s[1] = ch

\* the index of the first ch of s, or Len(s) + 1
RECURSIVE IndexOfChar(_, _, _)
IndexOfChar(s, ch, from) ==
    IF from > Len(s) THEN Len(s) + 1
    ELSE IF s[from] = ch THEN from
    ELSE IndexOfChar(s, ch, from + 1)

\* String.prototype.split(ch)
RECURSIVE Split(_, _)
Split(s, ch) ==
    LET i == IndexOfChar(s, ch, 1)
    IN  IF i > Len(s) THEN <<s>>
        ELSE <<SubSeq(s, 1, i - 1)>> \o Split(SubSeq(s, i + 1, Len(s)), ch)

\* path.isAbsolute of a POSIX build
pathIsAbsolute(source) == StartsWithChar(source, "/")

\* mutant: the test for a leading '/' is missing
isExternalPackage_DotOnly(source) == ~StartsWithChar(source, ".")

isExternalPackage(source) ==
    /\ ~StartsWithChar(source, ".")
    /\ ~StartsWithChar(source, "/")
    /\ ~pathIsAbsolute(source)

\* mutant: a scoped name keeps its scope only
extractPackageName_FirstSegment(source) ==
    Split(Split(Split(source, "?")[1], "#")[1], "/")[1]

extractPackageName(source) ==
    LET cleanSource == Split(Split(source, "?")[1], "#")[1]
        parts == Split(cleanSource, "/")
    IN  IF StartsWithChar(cleanSource, "@") /\ Len(parts) >= 2
        THEN parts[1] \o <<"/">> \o parts[2]
        ELSE parts[1]

\* ------------------------------------------ the syntax tree of one file
\* A node carries the fields the callback of extractImportsFromFile reads;
\* a field the node does not have (undefined) is "". The tree is given as
\* the sequence of its nodes in the order traverseAST visits them, node k
\* starting on line k, column 0.
Callee(type, name, objectType, objectName, propertyType, propertyName) ==
    [type |-> type, name |-> name,
     objectType |-> objectType, objectName |-> objectName,
     propertyType |-> propertyType, propertyName |-> propertyName]

NoCallee == Callee("", "", "", "", "", "")
RequireCallee == Callee("Identifier", "require", "", "", "", "")
FooCallee == Callee("Identifier", "foo", "", "", "", "")
ImportCallee == Callee("Import", "", "", "", "", "")
RequireResolveCallee ==
    Callee("MemberExpression", "", "Identifier", "require",
           "Identifier", "resolve")
RequireCacheCallee ==
    Callee("MemberExpression", "", "Identifier", "require",
           "Identifier", "cache")
FooResolveCallee ==
    Callee("MemberExpression", "", "Identifier", "foo",
           "Identifier", "resolve")

\* an argument of a call: its node type, typeof its value, its value
StringLiteral(value) ==
    [type |-> "Literal", typeOf |-> "string", value |-> value]
NumberLiteral == [type |-> "Literal", typeOf |-> "number", value |-> <<>>]
IdentifierArg == [type |-> "Identifier", typeOf |-> "undefined", value |-> <<>>]

ImportDeclaration(source, importKind, specifiers) ==
    [type |-> "ImportDeclaration", source |-> source,
     importKind |-> importKind, specifiers |-> specifiers,
     callee |-> NoCallee, arguments |-> <<>>]

CallExpression(callee, arguments) ==
    [type |-> "CallExpression", source |-> <<>>, importKind |-> "",
     specifiers |-> <<>>, callee |-> callee, arguments |-> arguments]

\* a node of any other type
OtherNode ==
    [type |-> "ExpressionStatement", source |-> <<>>, importKind |-> "",
     specifiers |-> <<>>, callee |-> NoCallee, arguments |-> <<>>]

\* mutant: some specifier of kind 'type' is enough
hasTypeOnlySpecifiers_Some(node) ==
    IF Len(node.specifiers) = 0 THEN FALSE
    ELSE \E i \in 1..Len(node.specifiers) : node.specifiers[i] = "type"

\* node.specifiers is the sequence of the importKind of the specifiers
hasTypeOnlySpecifiers(node) ==
    IF Len(node.specifiers) = 0 THEN FALSE
    ELSE \A i \in 1..Len(node.specifiers) : node.specifiers[i] = "type"

\* the record pushed for a reference of node k of filePath
ImportInfo(source, isTypeOnly, filePath, line, column) ==
    [packageName |-> extractPackageName(source), isTypeOnly |-> isTypeOnly,
     filePath |-> filePath, line |-> line, column |-> column]

\* the ImportDeclaration branch of the callback
importDeclarationRecords(node, filePath, k) ==
    IF /\ node.type = "ImportDeclaration"
       /\ node.source # <<>>
       /\ isExternalPackage(node.source)
    THEN <<ImportInfo(node.source,
                      node.importKind = "type" \/ hasTypeOnlySpecifiers(node),
                      filePath, k, 0)>>
    ELSE <<>>

\* what the three CallExpression branches do once their test of the callee
\* has passed
callRecords(node, filePath, k) ==
    IF /\ Len(node.arguments) > 0
       /\ node.arguments[1].type = "Literal"
       /\ node.arguments[1].typeOf = "string"
       /\ isExternalPackage(node.arguments[1].value)
    THEN <<ImportInfo(node.arguments[1].value, FALSE, filePath, k, 0)>>
    ELSE <<>>

\* mutant: the callee may also be a member of require
isRequireCall_OrMember(node) ==
    /\ node.type = "CallExpression"
    /\ \/ node.callee.type = "Identifier" /\ node.callee.name = "require"
       \/ node.callee.objectName = "require"

isRequireCall(node) ==
    /\ node.type = "CallExpression"
    /\ node.callee.type = "Identifier"
    /\ node.callee.name = "require"

isDynamicImport(node) ==
    /\ node.type = "CallExpression"
    /\ node.callee.type = "Import"

isRequireResolve(node) ==
    /\ node.type = "CallExpression"
    /\ node.callee.type = "MemberExpression"
    /\ node.callee.objectType = "Identifier"
    /\ node.callee.objectName = "require"
    /\ node.callee.propertyType = "Identifier"
    /\ node.callee.propertyName = "resolve"

\* the callback of extractImportsFromFile on node k: four tests in a row,
\* each pushing at most one record
visitNode(node, filePath, k) ==
    importDeclarationRecords(node, filePath, k)
    \o (IF isRequireCall(node) THEN callRecords(node, filePath, k) ELSE <<>>)
    \o (IF isDynamicImport(node) THEN callRecords(node, filePath, k) ELSE <<>>)
    \o (IF isRequireResolve(node) THEN callRecords(node, filePath, k)
        ELSE <<>>)

\* traverseAST(ast, callback): the callback on every node, in order
RECURSIVE traverseAST(_, _, _)
traverseAST(ast, filePath, k) ==
    IF k > Len(ast) THEN <<>>
    ELSE visitNode(ast[k], filePath, k) \o traverseAST(ast, filePath, k + 1)

\* --------------------------------------------- the text of one file
\* The text of a file is read off the same nodes, statement k on line k:
\*   import [type] <specifiers> from '<source>'   (import '<source>' when
\*   there is no specifier), <callee>(<arguments>)
\* and the three patterns of extractImportsWithRegex are decided on it.
Indices(n) == [k \in 1..n |-> k]

\* /^import\s+(?:type\s+)?(...)?from\s+['"]([^'"]+)['"]/gm matches line k
esmImportPattern(node) ==
    /\ node.type = "ImportDeclaration"
    /\ Len(node.specifiers) >= 1
    /\ node.source # <<>>

\* /require\s*\(\s*['"]([^'"]+)['"]\s*\)/g matches on line k
requirePattern(node) ==
    /\ node.type = "CallExpression"
    /\ node.callee.type = "Identifier"
    /\ node.callee.name = "require"
    /\ Len(node.arguments) = 1
    /\ node.arguments[1].type = "Literal"
    /\ node.arguments[1].typeOf = "string"
    /\ node.arguments[1].value # <<>>

\* /import\s*\(\s*['"]([^'"]+)['"]\s*\)/g matches on line k
dynamicImportPattern(node) ==
    /\ node.type = "CallExpression"
    /\ node.callee.type = "Import"
    /\ Len(node.arguments) = 1
    /\ node.arguments[1].type = "Literal"
    /\ node.arguments[1].typeOf = "string"
    /\ node.arguments[1].value # <<>>

\* match[1] of a match on the line of node
matchedSource(node) ==
    IF node.type = "ImportDeclaration" THEN node.source
    ELSE node.arguments[1].value

\* match[0].includes('import type') || match[0].includes('type {')
matchIsTypeOnly(node) ==
    node.type = "ImportDeclaration" /\ node.importKind = "type"

\* one while loop of extractImportsWithRegex: the lines in lines, in order
regexRecords(nodes, lines, filePath) ==
    [j \in 1..Len(lines) |->
        ImportInfo(matchedSource(nodes[lines[j]]),
                   matchIsTypeOnly(nodes[lines[j]]), filePath, lines[j], 0)]

extractImportsWithRegex(nodes, filePath) ==
    LET all == Indices(Len(nodes))
        esm == SelectSeq(all, LAMBDA k :
                  /\ esmImportPattern(nodes[k])
                  /\ isExternalPackage(matchedSource(nodes[k])))
        req == SelectSeq(all, LAMBDA k :
                  /\ requirePattern(nodes[k])
                  /\ isExternalPackage(matchedSource(nodes[k])))
        dyn == SelectSeq(all, LAMBDA k :
                  /\ dynamicImportPattern(nodes[k])
                  /\ isExternalPackage(matchedSource(nodes[k])))
    IN  regexRecords(nodes, esm, filePath)
        \o regexRecords(nodes, req, filePath)
        \o regexRecords(nodes, dyn, filePath)

\* ------------------------------------------------- extraction of one file
\* A file on disk: whether readFileSync returns, the source types under
\* which parse returns, and its statements.
Content(readable, accepts, nodes) ==
    [readable |-> readable, accepts |-> accepts, nodes |-> nodes]

Unreadable == Content(FALSE, {}, <<>>)

\* parse(content, {sourceType}) returns rather than throws
parseAccepts(content, sourceType) == sourceType \in content.accepts

\* mutant: no second parse, straight to the patterns
extractImportsFromContent_NoRetry(filePath, content) ==
    IF ~content.readable THEN
        [threw |-> TRUE, steps |-> <<"readFileSync">>, imports |-> <<>>]
    ELSE IF parseAccepts(content, "module") THEN
        [threw |-> FALSE, steps |-> <<"readFileSync", "parse module">>,
         imports |-> traverseAST(content.nodes, filePath, 1)]
    ELSE
        [threw |-> FALSE,
         steps |-> <<"readFileSync", "parse module",
                     "extractImportsWithRegex">>,
         imports |-> extractImportsWithRegex(content.nodes, filePath)]

\* extractImportsFromFile past its parameter: the calls it makes, in
\* order, whether it throws, and the records it returns
extractImportsFromContent(filePath, content) ==
    IF ~content.readable THEN
        [threw |-> TRUE, steps |-> <<"readFileSync">>, imports |-> <<>>]
    ELSE IF parseAccepts(content, "module") THEN
        [threw |-> FALSE, steps |-> <<"readFileSync", "parse module">>,
         imports |-> traverseAST(content.nodes, filePath, 1)]
    ELSE IF parseAccepts(content, "script") THEN
        [threw |-> FALSE,
         steps |-> <<"readFileSync", "parse module", "parse script">>,
         imports |-> traverseAST(content.nodes, filePath, 1)]
    ELSE
        [threw |-> FALSE,
         steps |-> <<"readFileSync", "parse module", "parse script",
                     "extractImportsWithRegex">>,
         imports |-> extractImportsWithRegex(content.nodes, filePath)]

NoResult ==
    [packagesToMove |-> <<>>, packagesToKeep |-> <<>>,
     totalDependencies |-> 0, canMoveCount |-> 0]

\* ---------------------------------------------------------- state machine
VARIABLES
    config,          \* ProjectConfig of the run (analyzeProject)
    pc,              \* position of the CLI action handler
    files,           \* result of findFilesToAnalyze
    fileIdx,         \* index of the next file of the loop of scanImports
    allImports,      \* allImports of scanImports
    analysisResult,  \* result of analyzeDependencies, once pc = "report"
    classified,      \* <<[filePath, result]>> after a call of classifyFile
    extracted,       \* <<[input, result]>> after a call of the scanner
    warnings,        \* the files named by console.warn, in order
    options,         \* the options of the command line
    disk,            \* package.json on disk, and how often it was written
    fixResult        \* <<[packagesToMove, updated, moved]>> after a call of
                     \* movePackagesToDevDependencies

vars == <<config, pc, files, fileIdx, allImports, analysisResult, classified,
          extracted, warnings, options, disk, fixResult>>

Init ==
    /\ config \in {Config(m, l) : m \in Manifests, l \in Layouts}
    /\ pc = "start"
    /\ files = <<>>
    /\ fileIdx = 1
    /\ allImports = <<>>
    /\ analysisResult = NoResult
    /\ classified = <<>>
    /\ extracted = <<>>
    /\ warnings = <<>>
    /\ options = [fix |-> FALSE]
    /\ disk = [packageJson |-> config.packageJson, writes |-> 0]
    /\ fixResult = <<>>

\* index.ts: if (dependencies.length === 0) return
NoDependencies ==
    /\ pc = "start"
    /\ Len(ObjectKeys(DependenciesOrEmpty(config))) = 0
    /\ pc' = "done"
    /\ UNCHANGED <<config, files, fileIdx, allImports, analysisResult,
                   classified, extracted, warnings,
                   options, disk, fixResult>>

\* scanImports up to its loop: the files to analyze
FindFiles ==
    /\ pc = "start"
    /\ Len(ObjectKeys(DependenciesOrEmpty(config))) # 0
    /\ \E tree \in ProjectTrees : files' = findFilesToAnalyze(config, tree)
    /\ fileIdx' = 1
    /\ pc' = "scan"
    /\ UNCHANGED <<config, allImports, analysisResult, classified,
                   extracted, warnings,
                   options, disk, fixResult>>

\* one iteration of the loop of scanImports, followed by its records: refs
\* are the external references whichever extraction path returns, and an
\* iteration whose extraction throws is the iteration with no references
\* (the console output of the loop is followed in SpecScan)
ScanFile ==
    /\ pc = "scan"
    /\ fileIdx <= Len(files)
    /\ \E refs \in RefSeqs(MaxRecords - Len(allImports)) :
          allImports' =
              allImports \o extractImportsFromFile(files[fileIdx], refs)
    /\ fileIdx' = fileIdx + 1
    /\ UNCHANGED <<config, pc, files, analysisResult, classified,
                   extracted, warnings,
                   options, disk, fixResult>>

\* scanImports returns; analyzeDependencies(config, imports)
Analyze ==
    /\ pc = "scan"
    /\ fileIdx > Len(files)
    /\ analysisResult' = analyzeDependencies(config, allImports)
    /\ pc' = "report"
    /\ UNCHANGED <<config, files, fileIdx, allImports, classified,
                   extracted, warnings,
                   options, disk, fixResult>>

Next == NoDependencies \/ FindFiles \/ ScanFile \/ Analyze

Spec == Init /\ [][Next]_vars

\* ------------------------- analyzeDependencies called with given records
\* the records a caller may pass: any reference, in a source file or in a
\* file outside the source directories
CallRecords ==
    {[packageName |-> ref.packageName, isTypeOnly |-> ref.isTypeOnly,
      filePath |-> filePath, line |-> 1, column |-> 0] :
        ref \in References, filePath \in {AppTs, ScriptTs}}

CallRecordSeqs(n) == UNION {[1..k -> CallRecords] : k \in 0..n}

\* a call analyzeDependencies(config, imports) that is not made by the
\* command line
AnalyzeCall ==
    /\ pc = "start"
    /\ \E imports \in CallRecordSeqs(MaxRecords) :
          /\ allImports' = imports
          /\ analysisResult' = analyzeDependencies(config, imports)
    /\ pc' = "called"
    /\ UNCHANGED <<config, files, fileIdx, classified, extracted, warnings,
                   options, disk, fixResult>>

NextAnalyze == Next \/ AnalyzeCall

SpecAnalyze == Init /\ [][NextAnalyze]_vars

\* --------------------------------------------- classifyFile on its own
DirNames == {"src", "test", "dist", "lib"}

\* the directory parts of at most n segments
DirSeqs(n) == UNION {[1..k -> DirNames] : k \in 0..n}

BaseNames ==
    {<<"app", "ts">>, <<"app", "test", "ts">>, <<"App", "TEST", "ts">>,
     <<"app", "spec", "jsx", "map">>, <<"test", "ts">>,
     <<"jest", "config", "ts">>, <<"", "eslintrc", "js">>,
     <<"tsconfig", "json">>, <<"types", "d", "ts">>, <<"package", "json">>}

ClassifyLayouts ==
    {Layout(s, t, b) :
        s \in {<<>>, <<<<"src">>>>, <<DotDir>>, <<<<"src">>, <<"lib">>>>},
        t \in {<<>>, <<<<"test">>>>, <<<<"src">>>>},
        b \in {<<>>, <<<<"dist">>>>, <<<<"src">>>>, <<<<"test">>>>,
               <<<<"dist">>, <<"lib">>>>}}

InitClassify ==
    /\ config \in {Config(Manifest(FALSE, <<>>), l) : l \in ClassifyLayouts}
    /\ pc = "classify"
    /\ files = <<>>
    /\ fileIdx = 1
    /\ allImports = <<>>
    /\ analysisResult = NoResult
    /\ classified = <<>>
    /\ extracted = <<>>
    /\ warnings = <<>>
    /\ options = [fix |-> FALSE]
    /\ disk = [packageJson |-> config.packageJson, writes |-> 0]
    /\ fixResult = <<>>

\* a call classifyFile(filePath, config)
Classify ==
    /\ pc = "classify"
    /\ \E dir \in DirSeqs(MaxDepth), base \in BaseNames :
          classified' =
              <<[filePath |-> File(dir, base),
                 result |-> classifyFile(File(dir, base), config)]>>
    /\ pc' = "classified"
    /\ UNCHANGED <<config, files, fileIdx, allImports, analysisResult,
                   extracted, warnings,
                   options, disk, fixResult>>

NextClassify == Classify

SpecClassify == InitClassify /\ [][NextClassify]_vars

\* ------------------------------ resolution of one source string on its own
MaxSourceLen == 6

\* the source strings of at most n characters
SourceStrings(n) == UNION {[1..k -> Chars] : k \in 0..n}

InitResolve ==
    /\ config \in {Config(Manifest(FALSE, <<>>), Layout(<<>>, <<>>, <<>>))}
    /\ pc = "resolve"
    /\ files = <<>>
    /\ fileIdx = 1
    /\ allImports = <<>>
    /\ analysisResult = NoResult
    /\ classified = <<>>
    /\ extracted = <<>>
    /\ warnings = <<>>
    /\ options = [fix |-> FALSE]
    /\ disk = [packageJson |-> config.packageJson, writes |-> 0]
    /\ fixResult = <<>>

\* what every extraction path does with the source of a reference:
\* if (isExternalPackage(source)) ... packageName: extractPackageName(source)
ResolveSource ==
    /\ pc = "resolve"
    /\ \E source \in SourceStrings(MaxSourceLen) :
          extracted' =
              <<[source |-> source,
                 external |-> isExternalPackage(source),
                 packageName |-> extractPackageName(source)]>>
    /\ pc' = "resolved"
    /\ UNCHANGED <<config, files, fileIdx, allImports, analysisResult,
                   classified, warnings,
                   options, disk, fixResult>>

NextResolve == ResolveSource

SpecResolve == InitResolve /\ [][NextResolve]_vars

\* -------------------------------------- extraction of one file on its own
MaxNodes == 2

PackageSource == <<"a">>
ScopedSource == <<"@", "a", "/", "a", "/", "a">>
RelativeSource == <<".", "/", "a">>
AbsoluteSource == <<"/", "a">>

\* the nodes of the files: every kind of import declaration of a package,
\* declarations of other sources, and the calls the callback tells apart
Nodes ==
    {ImportDeclaration(PackageSource, kind, specifiers) :
        kind \in {"value", "type"},
        specifiers \in {<<>>, <<"value">>, <<"type">>, <<"type", "value">>,
                        <<"type", "type">>}}
    \cup {ImportDeclaration(source, "value", <<"value">>) :
            source \in {ScopedSource, RelativeSource, AbsoluteSource, <<>>}}
    \cup {ImportDeclaration(RelativeSource, "type", <<"value">>)}
    \cup {CallExpression(callee, <<StringLiteral(source)>>) :
            callee \in {RequireCallee, ImportCallee, RequireResolveCallee},
            source \in {PackageSource, RelativeSource, AbsoluteSource}}
    \cup {CallExpression(RequireCallee, arguments) :
            arguments \in {<<>>, <<NumberLiteral>>, <<IdentifierArg>>}}
    \cup {CallExpression(callee, <<StringLiteral(PackageSource)>>) :
            callee \in {FooCallee, RequireCacheCallee, FooResolveCallee}}
    \cup {OtherNode}

NodeSeqs(n) == UNION {[1..k -> Nodes] : k \in 0..n}

Contents(n) ==
    {Unreadable}
    \cup {Content(TRUE, accepts, nodes) :
            accepts \in SUBSET {"module", "script"}, nodes \in NodeSeqs(n)}

InitExtract ==
    /\ config \in {Config(Manifest(FALSE, <<>>), Layout(<<>>, <<>>, <<>>))}
    /\ pc = "extract"
    /\ files = <<AppTs>>
    /\ fileIdx = 1
    /\ allImports = <<>>
    /\ analysisResult = NoResult
    /\ classified = <<>>
    /\ extracted = <<>>
    /\ warnings = <<>>
    /\ options = [fix |-> FALSE]
    /\ disk = [packageJson |-> config.packageJson, writes |-> 0]
    /\ fixResult = <<>>

\* a call extractImportsFromFile(filePath, config)
ExtractFile ==
    /\ pc = "extract"
    /\ \E content \in Contents(MaxNodes) :
          extracted' =
              <<[filePath |-> files[fileIdx],
                 content |-> content,
                 result |-> extractImportsFromContent(files[fileIdx],
                                                      content)]>>
    /\ pc' = "extracted"
    /\ UNCHANGED <<config, files, fileIdx, allImports, analysisResult,
                   classified, warnings,
                   options, disk, fixResult>>

NextExtract == ExtractFile

SpecExtract == InitExtract /\ [][NextExtract]_vars

\* ------------------------------------------- the loop of scanImports
\* the files findFilesToAnalyze gives, in its order
ScanOrder == <<AppTs, AppTestTs, ScriptTs>>

\* what the files may hold: unreadable, or statements under a parse outcome
ScanContents ==
    {Unreadable}
    \cup {Content(TRUE, accepts, nodes) :
            accepts \in {{}, {"module"}, {"script"}},
            nodes \in
              {<<>>,
               <<CallExpression(RequireCallee,
                                <<StringLiteral(PackageSource)>>)>>,
               <<ImportDeclaration(PackageSource, "type", <<"value">>),
                 CallExpression(RequireResolveCallee,
                                <<StringLiteral(ScopedSource)>>)>>}}

InitScan ==
    /\ config \in {Config(Manifest(TRUE, <<Lodash>>),
                          Layout(<<<<"src">>>>, <<<<"test">>>>, <<>>))}
    /\ pc = "scan"
    /\ files \in {SubSeq(ScanOrder, 1, n) : n \in 1..Len(ScanOrder)}
    /\ fileIdx = 1
    /\ allImports = <<>>
    /\ analysisResult = NoResult
    /\ classified = <<>>
    /\ extracted = <<>>
    /\ warnings = <<>>
    /\ options = [fix |-> FALSE]
    /\ disk = [packageJson |-> config.packageJson, writes |-> 0]
    /\ fixResult = <<>>

\* mutant: the exception of one file ends the loop
ScanIteration_AbortOnThrow ==
    /\ pc = "scan"
    /\ fileIdx <= Len(files)
    /\ \E content \in ScanContents :
          LET filePath == files[fileIdx]
              result == extractImportsFromContent(filePath, content)
          IN  /\ allImports' =
                    (IF result.threw THEN allImports
                     ELSE allImports \o result.imports)
              /\ warnings' =
                    (IF result.threw THEN Append(warnings, filePath)
                     ELSE warnings)
              /\ extracted' =
                    Append(extracted, [filePath |-> filePath,
                                       content |-> content,
                                       result |-> result])
              /\ fileIdx' =
                    (IF result.threw THEN Len(files) + 1 ELSE fileIdx + 1)
    /\ UNCHANGED <<config, pc, files, analysisResult, classified,
                   options, disk, fixResult>>

\* one iteration of the loop of scanImports: try { extractImportsFromFile;
\* allImports.push(...imports) } catch (error) { console.warn(...) }; the
\* exceptions of readFileSync are instances of Error
ScanIteration ==
    /\ pc = "scan"
    /\ fileIdx <= Len(files)
    /\ \E content \in ScanContents :
          LET filePath == files[fileIdx]
              result == extractImportsFromContent(filePath, content)
          IN  /\ allImports' =
                    (IF result.threw THEN allImports
                     ELSE allImports \o result.imports)
              /\ warnings' =
                    (IF result.threw THEN Append(warnings, filePath)
                     ELSE warnings)
              /\ extracted' =
                    Append(extracted, [filePath |-> filePath,
                                       content |-> content,
                                       result |-> result])
              /\ fileIdx' = fileIdx + 1
    /\ UNCHANGED <<config, pc, files, analysisResult, classified,
                   options, disk, fixResult>>

\* return allImports
ScanReturn ==
    /\ pc = "scan"
    /\ fileIdx > Len(files)
    /\ pc' = "scanned"
    /\ UNCHANGED <<config, files, fileIdx, allImports, analysisResult,
                   classified, extracted, warnings,
                   options, disk, fixResult>>

NextScan == ScanIteration \/ ScanReturn

SpecScan == InitScan /\ [][NextScan]_vars

\* --------------------------- movePackagesToDevDependencies on its own
MaxListed == 2

\* dependency maps: none, one or two packages, a package with the empty
\* version (which npm reads as any version)
DependencyMaps ==
    {<<>>, <<Lodash>>, <<Lodash, TypesNode>>, <<Dep("lodash", "")>>,
     <<Dep("lodash", ""), TypesNode>>}

\* devDependencies maps: empty, another package, the package itself at
\* another version
DevDependencyMaps ==
    {<<>>, <<Dep("vitest", "^1.0.0")>>, <<Dep("lodash", "^3.0.0")>>}

\* package.json contents with and without each of the two keys
PackageJsons ==
    {PackageJson("app", hasDependencies, dependencies,
                 hasDevDependencies, devDependencies) :
        hasDependencies \in BOOLEAN, dependencies \in DependencyMaps,
        hasDevDependencies \in BOOLEAN, devDependencies \in DevDependencyMaps}
    \ {m \in [name : {"app"}, hasDependencies : BOOLEAN,
              dependencies : DependencyMaps, hasDevDependencies : BOOLEAN,
              devDependencies : DevDependencyMaps] :
          \/ ~m.hasDependencies /\ m.dependencies # <<>>
          \/ ~m.hasDevDependencies /\ m.devDependencies # <<>>}

\* the names a caller may list
ListedNames == {"lodash", "@types/node", "chalk"}

NameSeqs(n) == UNION {[1..k -> ListedNames] : k \in 0..n}

InitMove ==
    /\ config \in {Config(m, Layout(<<<<"src">>>>, <<<<"test">>>>, <<>>)) :
                     m \in PackageJsons}
    /\ pc = "move"
    /\ files = <<>>
    /\ fileIdx = 1
    /\ allImports = <<>>
    /\ analysisResult = NoResult
    /\ classified = <<>>
    /\ extracted = <<>>
    /\ warnings = <<>>
    /\ options = [fix |-> TRUE]
    /\ disk = [packageJson |-> config.packageJson, writes |-> 0]
    /\ fixResult = <<>>

\* a call movePackagesToDevDependencies(packageJson, packagesToMove)
MovePackages ==
    /\ pc = "move"
    /\ \E packagesToMove \in NameSeqs(MaxListed) :
          LET result ==
                 movePackagesToDevDependencies(config.packageJson,
                                               packagesToMove)
          IN  fixResult' = <<[packagesToMove |-> packagesToMove,
                              updated |-> result.updated,
                              moved |-> result.moved]>>
    /\ pc' = "moved"
    /\ UNCHANGED <<config, files, fileIdx, allImports, analysisResult,
                   classified, extracted, warnings, options, disk>>

NextMove == MovePackages

SpecMove == InitMove /\ [][NextMove]_vars

\* ------------------------------------------- the command line with --fix
\* package.json contents of the runs: one or two dependencies, with or
\* without devDependencies, a dependency with the empty version, and no
\* dependencies at all
FixManifests ==
    {PackageJson("app", TRUE, <<Lodash>>, FALSE, <<>>),
     PackageJson("app", TRUE, <<Lodash, TypesNode>>, TRUE,
                 <<Dep("vitest", "^1.0.0")>>),
     PackageJson("app", TRUE, <<Lodash>>, TRUE, <<Dep("lodash", "^3.0.0")>>),
     PackageJson("app", TRUE, <<Dep("lodash", "")>>, FALSE, <<>>),
     PackageJson("app", TRUE, <<Dep("lodash", ""), TypesNode>>, TRUE, <<>>),
     PackageJson("app", FALSE, <<>>, TRUE, <<Dep("vitest", "^1.0.0")>>)}

InitFix ==
    /\ config \in {Config(m, Layout(<<<<"src">>>>, <<<<"test">>>>, <<>>)) :
                     m \in FixManifests}
    /\ pc = "start"
    /\ files = <<>>
    /\ fileIdx = 1
    /\ allImports = <<>>
    /\ analysisResult = NoResult
    /\ classified = <<>>
    /\ extracted = <<>>
    /\ warnings = <<>>
    /\ options \in [fix : BOOLEAN]
    /\ disk = [packageJson |-> config.packageJson, writes |-> 0]
    /\ fixResult = <<>>

\* mutant: the file is written although nothing was moved
Fix_WriteUnmoved ==
    /\ pc = "report"
    /\ IF options.fix /\ analysisResult.canMoveCount # 0 THEN
          LET packagesToMove ==
                 [i \in 1..Len(analysisResult.packagesToMove) |->
                     analysisResult.packagesToMove[i].packageName]
              result ==
                 movePackagesToDevDependencies(config.packageJson,
                                               packagesToMove)
          IN  /\ fixResult' = <<[packagesToMove |-> packagesToMove,
                                 updated |-> result.updated,
                                 moved |-> result.moved]>>
              /\ disk' =
                    [packageJson |->
                        writePackageJson(disk.packageJson, result.updated),
                     writes |-> disk.writes + 1]
       ELSE UNCHANGED <<disk, fixResult>>
    /\ pc' = "done"
    /\ UNCHANGED <<config, files, fileIdx, allImports, analysisResult,
                   classified, extracted, warnings, options>>

\* step 5 of the action handler, after the report: if (options.fix) ...
Fix ==
    /\ pc = "report"
    /\ IF options.fix /\ analysisResult.canMoveCount # 0 THEN
          LET packagesToMove ==
                 [i \in 1..Len(analysisResult.packagesToMove) |->
                     analysisResult.packagesToMove[i].packageName]
              result ==
                 movePackagesToDevDependencies(config.packageJson,
                                               packagesToMove)
          IN  /\ fixResult' = <<[packagesToMove |-> packagesToMove,
                                 updated |-> result.updated,
                                 moved |-> result.moved]>>
              /\ disk' =
                    IF Len(result.moved) = 0 THEN disk
                    ELSE [packageJson |->
                             writePackageJson(disk.packageJson,
                                              result.updated),
                          writes |-> disk.writes + 1]
       ELSE UNCHANGED <<disk, fixResult>>
    /\ pc' = "done"
    /\ UNCHANGED <<config, files, fileIdx, allImports, analysisResult,
                   classified, extracted, warnings, options>>

NextFix == NoDependencies \/ FindFiles \/ ScanFile \/ Analyze \/ Fix

SpecFix == InitFix /\ [][NextFix]_vars

\* ------------------------------------------------- vocabulary of the claims
\* analyzeDependencies has returned
Analyzed == pc = "report"

\* the declared runtime dependencies, in the order of the manifest
Declared ==
    [i \in 1..Len(DependenciesOrEmpty(config)) |->
        DependenciesOrEmpty(config)[i].name]

AllVerdicts == analysisResult.packagesToMove \o analysisResult.packagesToKeep

\* the positions of the input records that name package p
RecordsOf(p) == {i \in 1..Len(allImports) : allImports[i].packageName = p}

InProductionFile(imp) == classifyFile(imp.filePath, config).isProduction

\* the text of a reason without regard to letter case (the code's reasons
\* start with a capital letter)
ToLowerCase(reason) ==
    CASE reason = "Only used in dev/test/config files" ->
            "only used in dev/test/config files"
      [] reason = "Only type-only imports in production code" ->
            "only type-only imports in production code"
      [] reason = "Has runtime imports in production code" ->
            "has runtime imports in production code"
      [] reason = "Used in production code" -> "used in production code"
      [] OTHER -> reason

\* package p has a runtime record in a production file
HasRuntimeInProduction(p) ==
    \E i \in RecordsOf(p) :
        ~allImports[i].isTypeOnly /\ InProductionFile(allImports[i])

\* package p has a record in a production file
HasProductionRecord(p) ==
    \E i \in RecordsOf(p) : InProductionFile(allImports[i])

\* the file lies under directory dir (given as segments): its directory is
\* dir followed by the rest of its own segments
LiesUnder(filePath, dir) ==
    \E n \in 0..Len(filePath.dir) :
        filePath.dir = dir \o SubSeq(filePath.dir, n + 1, Len(filePath.dir))

\* C1: a declared dependency with a runtime record from a production file is
\* kept, with the reason 'has runtime imports in production code', and no
\* package of packagesToMove has such a record.
C1_RuntimeInProductionKept ==
    Analyzed =>
      /\ \A d \in 1..Len(Declared) :
            HasRuntimeInProduction(Declared[d]) =>
              \E k \in 1..Len(analysisResult.packagesToKeep) :
                 LET v == analysisResult.packagesToKeep[k]
                 IN  /\ v.packageName = Declared[d]
                     /\ v.canMoveToDevDependencies = FALSE
                     /\ ToLowerCase(v.reason) =
                           "has runtime imports in production code"
      /\ \A k \in 1..Len(analysisResult.packagesToMove) :
            LET v == analysisResult.packagesToMove[k]
            IN  /\ ~HasRuntimeInProduction(v.packageName)
                /\ \A i \in 1..Len(v.imports) :
                      ~(~v.imports[i].isTypeOnly /\ InProductionFile(v.imports[i]))

C1_Witness ==
    /\ Analyzed
    /\ \E d \in 1..Len(Declared) :
          /\ HasRuntimeInProduction(Declared[d])
          /\ \E i \in RecordsOf(Declared[d]) :
                allImports[i].isTypeOnly /\ InProductionFile(allImports[i])
    /\ Len(analysisResult.packagesToMove) > 0

\* C2: a declared dependency with no import record gets canMove = FALSE, an
\* empty imports list, usedInProduction = usedInDev = FALSE and the reason
\* that it was not found in imports.
C2_NoRecordsConservative ==
    Analyzed =>
      \A d \in 1..Len(Declared) :
         RecordsOf(Declared[d]) = {} =>
           \E k \in 1..Len(AllVerdicts) :
              LET v == AllVerdicts[k]
              IN  /\ v.packageName = Declared[d]
                  /\ v.canMoveToDevDependencies = FALSE
                  /\ v.imports = <<>>
                  /\ v.usedInProduction = FALSE
                  /\ v.usedInDev = FALSE
                  /\ v.reason =
                       "Package not found in imports (may be used in scripts or other ways)"

C2_Witness ==
    /\ Analyzed
    /\ Len(allImports) > 0
    /\ \E d \in 1..Len(Declared) : RecordsOf(Declared[d]) = {}

\* C3: a declared dependency with records, none of them from a production
\* file, can move, with the reason 'only used in dev/test/config files'.
C3_NoProductionUseMoves ==
    Analyzed =>
      \A d \in 1..Len(Declared) :
         (RecordsOf(Declared[d]) # {} /\ ~HasProductionRecord(Declared[d])) =>
           \E k \in 1..Len(AllVerdicts) :
              LET v == AllVerdicts[k]
              IN  /\ v.packageName = Declared[d]
                  /\ v.canMoveToDevDependencies = TRUE
                  /\ ToLowerCase(v.reason) =
                        "only used in dev/test/config files"

C3_Witness ==
    /\ Analyzed
    /\ \E d \in 1..Len(Declared) :
          /\ RecordsOf(Declared[d]) # {}
          /\ ~HasProductionRecord(Declared[d])
          /\ \E i \in RecordsOf(Declared[d]) : ~allImports[i].isTypeOnly

\* the verdict of package p in an analysis result
VerdictIn(result, p) ==
    CHOOSE v \in Range(result.packagesToMove \o result.packagesToKeep) :
        v.packageName = p

\* records with one more record put after position j
InsertAt(records, j, imp) ==
    SubSeq(records, 1, j) \o <<imp>> \o SubSeq(records, j + 1, Len(records))

\* the files of the project that are production files for the layout
ProductionFiles ==
    {f \in UNION {Range(tree) : tree \in ProjectTrees} :
        classifyFile(f, config).isProduction}

\* package p has a type-only record in a production file and no runtime
\* record in one
TypeOnlyInProduction(p) ==
    /\ \E i \in RecordsOf(p) :
          allImports[i].isTypeOnly /\ InProductionFile(allImports[i])
    /\ ~HasRuntimeInProduction(p)

\* C4: a declared dependency whose production records are all type-only (at
\* least one) can move, with the reason 'only type-only imports in
\* production code'; the same input with one more runtime record of the
\* package from a production file gives the package canMove = FALSE.
C4_TypeOnlyInProductionMovesAndFlips ==
    Analyzed =>
      \A d \in 1..Len(Declared) :
         TypeOnlyInProduction(Declared[d]) =>
           /\ VerdictIn(analysisResult, Declared[d]).canMoveToDevDependencies
                 = TRUE
           /\ ToLowerCase(VerdictIn(analysisResult, Declared[d]).reason) =
                 "only type-only imports in production code"
           /\ \A f \in ProductionFiles, j \in 0..Len(allImports) :
                 LET added == [packageName |-> Declared[d],
                               isTypeOnly |-> FALSE, filePath |-> f,
                               line |-> MaxRecords + 1, column |-> 0]
                     again == analyzeDependencies(
                                 config, InsertAt(allImports, j, added))
                 IN  VerdictIn(again, Declared[d]).canMoveToDevDependencies
                        = FALSE

C4_Witness ==
    /\ Analyzed
    /\ Len(allImports) >= 2
    /\ \E d \in 1..Len(Declared) :
          /\ TypeOnlyInProduction(Declared[d])
          /\ \E i \in RecordsOf(Declared[d]) : ~allImports[i].isTypeOnly
    /\ ProductionFiles # {}

\* C5: packagesToMove and packagesToKeep partition the declared
\* dependencies (in packagesToMove iff canMove), no other package is in
\* either list, canMoveCount is the length of packagesToMove and
\* totalDependencies the sum of the two lengths.
C5_Partition ==
    Analyzed =>
      /\ \A d \in 1..Len(Declared) :
            /\ Cardinality({k \in 1..Len(AllVerdicts) :
                    AllVerdicts[k].packageName = Declared[d]}) = 1
            /\ (\E k \in 1..Len(analysisResult.packagesToMove) :
                    analysisResult.packagesToMove[k].packageName = Declared[d])
               <=> VerdictIn(analysisResult, Declared[d])
                      .canMoveToDevDependencies
      /\ \A k \in 1..Len(analysisResult.packagesToMove) :
            analysisResult.packagesToMove[k].canMoveToDevDependencies
      /\ \A k \in 1..Len(analysisResult.packagesToKeep) :
            ~analysisResult.packagesToKeep[k].canMoveToDevDependencies
      /\ \A k \in 1..Len(AllVerdicts) :
            AllVerdicts[k].packageName \in Range(Declared)
      /\ analysisResult.canMoveCount = Len(analysisResult.packagesToMove)
      /\ analysisResult.totalDependencies =
            Len(analysisResult.packagesToMove)
            + Len(analysisResult.packagesToKeep)

C5_Witness ==
    /\ Analyzed
    /\ Len(analysisResult.packagesToMove) = 1
    /\ Len(analysisResult.packagesToKeep) = 1
    /\ Len(allImports) = MaxRecords

\* the position of a declared dependency in the manifest
DeclaredIndex(p) == CHOOSE d \in 1..Len(Declared) : Declared[d] = p

\* the verdicts of list follow the order of the manifest
InDeclaredOrder(list) ==
    \A k, l \in 1..Len(list) :
        k < l => DeclaredIndex(list[k].packageName)
                    < DeclaredIndex(list[l].packageName)

\* the records of verdict v are the input records of its package, in the
\* order of the input
InInputOrder(v) ==
    /\ Len(v.imports) = Cardinality(RecordsOf(v.packageName))
    /\ \A a \in 1..Len(v.imports) :
          \E i \in RecordsOf(v.packageName) : allImports[i] = v.imports[a]
    /\ \A a, b \in 1..Len(v.imports) :
          a < b =>
            \E i, j \in RecordsOf(v.packageName) :
               /\ i < j
               /\ allImports[i] = v.imports[a]
               /\ allImports[j] = v.imports[b]

\* p comes before q in the order of Object.keys: integer-index names first,
\* by ascending value, then the other names in the order of the manifest
KeyOrderBefore(p, q) ==
    LET ip == IntegerIndexValue(p)
        iq == IntegerIndexValue(q)
    IN  \/ ip >= 0 /\ iq < 0
        \/ ip >= 0 /\ iq >= 0 /\ ip < iq
        \/ ip < 0 /\ iq < 0 /\ DeclaredIndex(p) < DeclaredIndex(q)

InKeyOrder(list) ==
    \A k, l \in 1..Len(list) :
        k < l => KeyOrderBefore(list[k].packageName, list[l].packageName)

\* C6 as stated: packagesToMove and packagesToKeep are in the order in which
\* the packages are declared in the manifest, and each imports list keeps
\* the order of the input records.
C6_DeclaredOrder ==
    Analyzed =>
      /\ InDeclaredOrder(analysisResult.packagesToMove)
      /\ InDeclaredOrder(analysisResult.packagesToKeep)
      /\ \A k \in 1..Len(AllVerdicts) : InInputOrder(AllVerdicts[k])

\* C6 (amended): packagesToMove and packagesToKeep are in the order of
\* Object.keys of the manifest's dependencies (declaration order, except
\* that names that are integer indices come first, in ascending numeric
\* order), and each imports list keeps the order of the input records
\* (file-traversal order).
C6_KeyOrder ==
    Analyzed =>
      /\ InKeyOrder(analysisResult.packagesToMove)
      /\ InKeyOrder(analysisResult.packagesToKeep)
      /\ \A k \in 1..Len(AllVerdicts) : InInputOrder(AllVerdicts[k])

C6_Witness ==
    /\ Analyzed
    /\ Len(analysisResult.packagesToKeep) = 3
    /\ analysisResult.packagesToKeep[1].packageName = "7"
    /\ Len(analysisResult.packagesToKeep[3].imports) >= 2
    /\ analysisResult.packagesToKeep[3].imports[1].filePath
          # analysisResult.packagesToKeep[3].imports[2].filePath
    /\ \E i \in 1..Len(allImports) :
          allImports[i].packageName = "@types/node"

\* the files the records of a sequence come from
FilesOf(records) == {records[i].filePath : i \in 1..Len(records)}

\* the flags of analyzePackageUsage for the records of package p in records
UsageOf(records, p) ==
    FoldImports(InitialUsage,
                SelectSeq(records, LAMBDA imp : imp.packageName = p), config)

UsageOr(x, y) ==
    [usedInProduction |-> x.usedInProduction \/ y.usedInProduction,
     usedInDev |-> x.usedInDev \/ y.usedInDev,
     hasRuntimeInProduction |->
        x.hasRuntimeInProduction \/ y.hasRuntimeInProduction,
     hasTypeOnlyInProduction |->
        x.hasTypeOnlyInProduction \/ y.hasTypeOnlyInProduction,
     allImportsAreTypeOnly |->
        x.allImportsAreTypeOnly /\ y.allImportsAreTypeOnly]

\* the statement of C7 for the input split after position k into the
\* records A of some files and the records B of other files
SplitAgrees(k) ==
    LET A == SubSeq(allImports, 1, k)
        B == SubSeq(allImports, k + 1, Len(allImports))
        rA == analyzeDependencies(config, A)
        rB == analyzeDependencies(config, B)
        rBA == analyzeDependencies(config, B \o A)
    IN  \A d \in 1..Len(Declared) :
           LET p == Declared[d]
               vAB == VerdictIn(analysisResult, p)
               vA == VerdictIn(rA, p)
               vB == VerdictIn(rB, p)
               vBA == VerdictIn(rBA, p)
               ored == UsageOr(UsageOf(A, p), UsageOf(B, p))
           IN  /\ vAB.imports = vA.imports \o vB.imports
               /\ vAB.usedInProduction
                     = (vA.usedInProduction \/ vB.usedInProduction)
               /\ vAB.usedInDev = (vA.usedInDev \/ vB.usedInDev)
               /\ vAB.canMoveToDevDependencies =
                     IF vA.imports \o vB.imports = <<>> THEN FALSE
                     ELSE DecideMove(ored).canMove
               /\ vBA.canMoveToDevDependencies
                     = vAB.canMoveToDevDependencies
               /\ vBA.reason = vAB.reason

\* C7: for the records A of some files followed by the records B of other
\* files, every package's imports list is the concatenation of its lists
\* from A and from B, usedInProduction and usedInDev are the OR of the two
\* separate analyses, the verdict is the decision rule (an empty group is
\* kept, otherwise the if-chain) on the OR-ed flags, and B followed by A
\* gives the same verdict.
C7_GroupingOverDisjointFiles ==
    Analyzed =>
      \A k \in 0..Len(allImports) :
         FilesOf(SubSeq(allImports, 1, k))
           \cap FilesOf(SubSeq(allImports, k + 1, Len(allImports))) = {}
         => SplitAgrees(k)

C7_Witness ==
    /\ Analyzed
    /\ \E k \in 1..(Len(allImports) - 1) :
          /\ FilesOf(SubSeq(allImports, 1, k))
               \cap FilesOf(SubSeq(allImports, k + 1, Len(allImports))) = {}
          /\ \E d \in 1..Len(Declared) :
                /\ UsageOf(SubSeq(allImports, 1, k), Declared[d])
                      .usedInProduction
                /\ UsageOf(SubSeq(allImports, k + 1, Len(allImports)),
                           Declared[d]).usedInDev
                /\ ~UsageOf(SubSeq(allImports, k + 1, Len(allImports)),
                            Declared[d]).usedInProduction

\* the two records of the end-to-end scenario
ScenarioImports ==
    {[packageName |-> "lodash", isTypeOnly |-> FALSE, filePath |-> AppTs,
      line |-> 1, column |-> 0],
     [packageName |-> "@types/node", isTypeOnly |-> TRUE,
      filePath |-> AppTestTs, line |-> 1, column |-> 0]}

Scenario ==
    /\ Analyzed
    /\ Range(Declared) = {"lodash", "@types/node"}
    /\ config.sourceDirs = <<<<"src">>>>
    /\ config.testDirs = <<<<"test">>>>
    /\ Len(allImports) = 2
    /\ Range(allImports) = ScenarioImports

\* C8: dependencies lodash and @types/node, source directory src, test
\* directory test, a runtime record of lodash from src/app.ts and a
\* type-only record of @types/node from test/app.test.ts: lodash is kept
\* ('has runtime imports in production code') and @types/node moves ('only
\* used in dev/test/config files').
C8_EndToEnd ==
    Scenario =>
      /\ Len(analysisResult.packagesToKeep) = 1
      /\ analysisResult.packagesToKeep[1].packageName = "lodash"
      /\ ToLowerCase(analysisResult.packagesToKeep[1].reason) =
            "has runtime imports in production code"
      /\ Len(analysisResult.packagesToMove) = 1
      /\ analysisResult.packagesToMove[1].packageName = "@types/node"
      /\ ToLowerCase(analysisResult.packagesToMove[1].reason) =
            "only used in dev/test/config files"

C8_Witness == Scenario

\* the file lies under one of the directories of a list of the layout
UnderSomeDir(filePath, dirList) ==
    \E i \in 1..Len(dirList) : LiesUnder(filePath, dirList[i])

\* the name matches *.test.{ts,tsx,js,jsx} or *.spec.{ts,tsx,js,jsx},
\* optionally followed by .map
MatchesTestPattern(base) ==
    \E stem \in 1..(Len(base) - 2) :
       LET rest == SubSeq(base, stem + 1, Len(base))
       IN  /\ rest[1] \in {"test", "spec"}
           /\ rest[2] \in {"ts", "tsx", "js", "jsx"}
           /\ (Len(rest) = 2 \/ (Len(rest) = 3 /\ rest[3] = "map"))

\* C9: a file under a configured build directory is classified isBuild and
\* nothing else, whatever its name and whether or not the build directory
\* is also a source or test directory.
C9_BuildDirectoryFirst ==
    \A c \in Range(classified) :
       UnderSomeDir(c.filePath, config.buildDirs) =>
          /\ c.result.isBuild = TRUE
          /\ c.result.isProduction = FALSE
          /\ c.result.isTest = FALSE
          /\ c.result.isConfig = FALSE

C9_Witness ==
    \E c \in Range(classified) :
       /\ \E i \in 1..Len(config.buildDirs) :
             /\ LiesUnder(c.filePath, config.buildDirs[i])
             /\ config.buildDirs[i] \in Range(config.sourceDirs)
             /\ config.buildDirs[i] \in Range(config.testDirs)
       /\ MatchesTestPattern(c.filePath.base)
       /\ c.result.isBuild

\* C10: a file that is not under a build directory and is under a test
\* directory or has a test/spec name is classified isTest and nothing else,
\* also under a source directory and also outside every directory list.
C10_TestFiles ==
    \A c \in Range(classified) :
       (/\ ~UnderSomeDir(c.filePath, config.buildDirs)
        /\ \/ UnderSomeDir(c.filePath, config.testDirs)
           \/ MatchesTestPattern(c.filePath.base)) =>
          /\ c.result.isTest = TRUE
          /\ c.result.isProduction = FALSE
          /\ c.result.isBuild = FALSE
          /\ c.result.isConfig = FALSE

C10_Witness ==
    \E c \in Range(classified) :
       /\ ~UnderSomeDir(c.filePath, config.buildDirs)
       /\ ~UnderSomeDir(c.filePath, config.testDirs)
       /\ UnderSomeDir(c.filePath, config.sourceDirs)
       /\ MatchesTestPattern(c.filePath.base)
       /\ Last(c.filePath.base) = "map"
       /\ c.result.isTest

\* a file name with its parts in lower case
LowerName(base) == [i \in 1..Len(base) |-> Lower(base[i])]

\* the file lies under a configured source directory; when the root '.' is
\* configured, a file with no subdirectory component lies under it
UnderSource(filePath) ==
    \/ \E i \in 1..Len(config.sourceDirs) :
          /\ config.sourceDirs[i] # DotDir
          /\ LiesUnder(filePath, config.sourceDirs[i])
    \/ /\ DotDir \in Range(config.sourceDirs)
       /\ Len(filePath.dir) = 0

\* directory dir occurs in the directory part of the file, at any depth
HasDirSegments(filePath, dir) ==
    \E n \in 0..Len(filePath.dir) :
        LiesUnder(File(SubSeq(filePath.dir, n + 1, Len(filePath.dir)),
                       filePath.base), dir)

\* rule 1: under a build directory
BuildRule(filePath) == UnderSomeDir(filePath, config.buildDirs)

\* rule 2 as the classifier applies it: a configured test directory occurs
\* in the path, or the name matches the test pattern in any letter case
TestRule(filePath) ==
    \/ \E i \in 1..Len(config.testDirs) :
          HasDirSegments(filePath, config.testDirs[i])
    \/ MatchesTestPattern(LowerName(filePath.base))

\* the tool-configuration names among the file names of the model
ConfigStyleNames ==
    {<<"jest", "config", "ts">>, <<"", "eslintrc", "js">>,
     <<"tsconfig", "json">>, <<"package", "json">>}

\* rule 3: a configuration name outside the source directories
ConfigRule(filePath) ==
    filePath.base \in ConfigStyleNames /\ ~UnderSource(filePath)

\* C11: a file that is neither under a build directory nor a test file, has
\* a tool-configuration name (or is tsconfig.json / package.json) and does
\* not lie under a source directory is classified isConfig and nothing else.
C11_ConfigFiles ==
    \A c \in Range(classified) :
       (/\ ~BuildRule(c.filePath)
        /\ ~TestRule(c.filePath)
        /\ c.filePath.base \in ConfigStyleNames
        /\ ~UnderSource(c.filePath)) =>
          /\ c.result.isConfig = TRUE
          /\ c.result.isProduction = FALSE
          /\ c.result.isTest = FALSE
          /\ c.result.isBuild = FALSE

C11_Witness ==
    \E c \in Range(classified) :
       /\ config.sourceDirs = <<DotDir>>
       /\ c.filePath = File(<<"lib">>, <<"tsconfig", "json">>)
       /\ ~BuildRule(c.filePath)
       /\ ~TestRule(c.filePath)
       /\ c.result.isConfig = FALSE

\* C12: a file that matches none of rules 1-3 has isProduction
\* equal to whether it lies under a configured source directory.
C12_ProductionIsUnderSource ==
    \A c \in Range(classified) :
       (/\ ~BuildRule(c.filePath)
        /\ ~TestRule(c.filePath)
        /\ ~ConfigRule(c.filePath)) =>
          c.result.isProduction = UnderSource(c.filePath)

C12_Witness ==
    \E c \in Range(classified) :
       /\ config.sourceDirs = <<<<"src">>>>
       /\ c.filePath = File(<<"src">>, <<"jest", "config", "ts">>)
       /\ ~BuildRule(c.filePath)
       /\ ~TestRule(c.filePath)
       /\ c.result.isProduction = FALSE
       /\ c.result.isConfig = FALSE

\* C13: isProduction is true only for a file that lies under a configured
\* source directory and is none of test, build and config, and isProduction
\* and isTest are never both true.
C13_ProductionOnlyInSource ==
    \A c \in Range(classified) :
       /\ c.result.isProduction =>
             /\ UnderSource(c.filePath)
             /\ ~BuildRule(c.filePath)
             /\ ~TestRule(c.filePath)
             /\ ~ConfigRule(c.filePath)
             /\ ~c.result.isTest /\ ~c.result.isBuild /\ ~c.result.isConfig
       /\ ~(c.result.isProduction /\ c.result.isTest)

C13_Witness ==
    \E c \in Range(classified) :
       /\ config.sourceDirs = <<DotDir>>
       /\ c.filePath = File(<<"lib">>, <<"app", "ts">>)
       /\ c.result.isProduction = TRUE

\* the number of occurrences of character ch in s
CountChar(s, ch) == Cardinality({i \in 1..Len(s) : s[i] = ch})

\* s without its query string and fragment: up to the first '?' or '#'
Stripped(s) ==
    LET stops == {i \in 1..Len(s) : s[i] \in {"?", "#"}}
    IN  IF stops = {} THEN s
        ELSE SubSeq(s, 1, (CHOOSE i \in stops : \A j \in stops : i <= j) - 1)

\* r is made of whole leading '/'-separated segments of s
LeadingSegments(r, s) ==
    /\ Len(r) <= Len(s)
    /\ SubSeq(s, 1, Len(r)) = r
    /\ Len(r) = Len(s) \/ s[Len(r) + 1] = "/"

\* a source string that is neither relative nor absolute
ExternalSource(s) == Len(s) = 0 \/ s[1] \notin {".", "/"}

\* C14: for an external source string, the package name is made of the
\* leading segments of the string stripped of query and fragment: the first
\* two when the string starts with '@' and has at least two segments, the
\* first one otherwise; and resolving the package name again gives it back.
C14_PackageName ==
    \A e \in Range(extracted) :
       ExternalSource(e.source) =>
          LET clean == Stripped(e.source)
              scoped == /\ Len(clean) >= 1 /\ clean[1] = "@"
                        /\ CountChar(clean, "/") >= 1
          IN  /\ LeadingSegments(e.packageName, clean)
              /\ CountChar(e.packageName, "/") = (IF scoped THEN 1 ELSE 0)
              /\ extractPackageName(e.packageName) = e.packageName

C14_Witness ==
    \E e \in Range(extracted) :
       /\ e.source = <<"@", "a", "/", "a", "/", "a">>
       /\ e.packageName = <<"@", "a", "/", "a">>

\* the positions of the records of line k in the result of a call
RecordsAtLine(e, k) ==
    {i \in 1..Len(e.result.imports) : e.result.imports[i].line = k}

\* the source strings a statement refers to
ReferenceSources(node) ==
    IF node.type = "ImportDeclaration" THEN {node.source}
    ELSE {node.arguments[i].value :
            i \in {j \in 1..Len(node.arguments) :
                      node.arguments[j].typeOf = "string"}}

\* a relative or absolute specifier
NonPackage(s) == Len(s) >= 1 /\ s[1] \in {".", "/"}

\* the records of the call come from the syntax tree / from the patterns
OnAstPath(e) == e.content.readable /\ e.content.accepts # {}
OnRegexPath(e) == e.content.readable /\ e.content.accepts = {}

\* C15: a statement whose source starts with '.' or '/' produces no record,
\* whether the file is parsed or scanned with the patterns, and no record
\* has a package name that starts with '.' or '/'.
C15_NoRelativeRecords ==
    \A e \in Range(extracted) :
       /\ \A k \in 1..Len(e.content.nodes) :
             (\E src \in ReferenceSources(e.content.nodes[k]) :
                 NonPackage(src)) => RecordsAtLine(e, k) = {}
       /\ \A i \in 1..Len(e.result.imports) :
             ~NonPackage(e.result.imports[i].packageName)

C15_Witness ==
    \E e \in Range(extracted) :
       /\ OnRegexPath(e)
       /\ e.content.nodes =
             <<CallExpression(RequireCallee,
                              <<StringLiteral(RelativeSource)>>),
               ImportDeclaration(ScopedSource, "value", <<"value">>)>>
       /\ Len(e.result.imports) = 1
       /\ e.result.imports[1].line = 2

\* C16: in a parsed file, an import declaration of a package yields one
\* record, which is type-only iff the declaration is marked type-only or has
\* at least one specifier and all its specifiers are marked type-only.
C16_TypeOnlyDeclarations ==
    \A e \in Range(extracted) :
       OnAstPath(e) =>
          \A k \in 1..Len(e.content.nodes) :
             LET node == e.content.nodes[k]
                 marked == node.importKind = "type"
                 allSpecifiersTyped ==
                    /\ node.specifiers # <<>>
                    /\ Range(node.specifiers) = {"type"}
             IN  (/\ node.type = "ImportDeclaration"
                  /\ node.source # <<>>
                  /\ ExternalSource(node.source)) =>
                    /\ Cardinality(RecordsAtLine(e, k)) = 1
                    /\ \A i \in RecordsAtLine(e, k) :
                          e.result.imports[i].isTypeOnly =
                             (marked \/ allSpecifiersTyped)

C16_Witness ==
    \E e \in Range(extracted) :
       /\ OnAstPath(e)
       /\ e.content.nodes =
             <<ImportDeclaration(PackageSource, "value",
                                 <<"type", "value">>),
               ImportDeclaration(PackageSource, "value",
                                 <<"type", "type">>)>>
       /\ Len(e.result.imports) = 2
       /\ ~e.result.imports[1].isTypeOnly
       /\ e.result.imports[2].isTypeOnly

\* the three call shapes, as calls of these callees
ReferenceCallees == {RequireCallee, ImportCallee, RequireResolveCallee}

\* C17: in a parsed file, a call of require, import or require.resolve whose
\* first argument is a string literal naming a package yields exactly one
\* record, with isTypeOnly false, and no node yields more than one record.
C17_CallsAreRuntime ==
    \A e \in Range(extracted) :
       OnAstPath(e) =>
          \A k \in 1..Len(e.content.nodes) :
             LET node == e.content.nodes[k]
             IN  /\ Cardinality(RecordsAtLine(e, k)) <= 1
                 /\ (/\ node.type = "CallExpression"
                     /\ node.callee \in ReferenceCallees
                     /\ Len(node.arguments) >= 1
                     /\ node.arguments[1].type = "Literal"
                     /\ node.arguments[1].typeOf = "string"
                     /\ ExternalSource(node.arguments[1].value)) =>
                       /\ Cardinality(RecordsAtLine(e, k)) = 1
                       /\ \A i \in RecordsAtLine(e, k) :
                             e.result.imports[i].isTypeOnly = FALSE

C17_Witness ==
    \E e \in Range(extracted) :
       /\ OnAstPath(e)
       /\ e.content.nodes =
             <<CallExpression(RequireResolveCallee,
                              <<StringLiteral(PackageSource)>>),
               CallExpression(ImportCallee,
                              <<StringLiteral(PackageSource)>>)>>
       /\ Len(e.result.imports) = 2

\* s is a prefix of t
IsPrefix(s, t) == Len(s) <= Len(t) /\ SubSeq(t, 1, Len(s)) = s

\* statements only the syntax tree shows: require.resolve calls and
\* import declarations without specifiers
AstOnly(node) ==
    \/ node.type = "CallExpression" /\ node.callee = RequireResolveCallee
    \/ node.type = "ImportDeclaration" /\ node.specifiers = <<>>

\* C18: a file that was read is parsed as module; it is parsed as script
\* iff that failed; the patterns run iff both parses failed; the steps come
\* in that order, once each; the records are those of the syntax tree or
\* those of the patterns, never both; and the call throws only if the file
\* could not be read.
C18_ParseOrder ==
    \A e \in Range(extracted) :
       /\ e.result.threw = ~e.content.readable
       /\ e.content.readable =>
             /\ IsPrefix(e.result.steps,
                         <<"readFileSync", "parse module", "parse script",
                           "extractImportsWithRegex">>)
             /\ "parse module" \in Range(e.result.steps)
             /\ "parse script" \in Range(e.result.steps)
                   <=> "module" \notin e.content.accepts
             /\ "extractImportsWithRegex" \in Range(e.result.steps)
                   <=> e.content.accepts = {}
             /\ \A k \in 1..Len(e.content.nodes) :
                   /\ Cardinality(RecordsAtLine(e, k)) <= 1
                   /\ (/\ AstOnly(e.content.nodes[k])
                       /\ \E src \in ReferenceSources(e.content.nodes[k]) :
                             src # <<>> /\ ExternalSource(src)) =>
                         (RecordsAtLine(e, k) # {} <=> OnAstPath(e))

C18_Witness ==
    \E e \in Range(extracted) :
       /\ OnRegexPath(e)
       /\ e.content.nodes =
             <<CallExpression(RequireResolveCallee,
                              <<StringLiteral(PackageSource)>>),
               CallExpression(RequireCallee,
                              <<StringLiteral(PackageSource)>>)>>
       /\ Len(e.result.imports) = 1
       /\ e.result.steps[Len(e.result.steps)] = "extractImportsWithRegex"

\* scanImports has returned
Scanned == pc = "scanned"

\* C19: a file that neither parse accepts has a warning naming it, and the
\* scan goes on to the remaining files.
C19_UnparseableFileWarned ==
    /\ \A i \in 1..Len(extracted) :
          OnRegexPath(extracted[i]) =>
             extracted[i].filePath \in Range(warnings)
    /\ Scanned => Len(extracted) = Len(files)

C19_Witness ==
    /\ Scanned
    /\ Len(files) = 2
    /\ OnRegexPath(extracted[1])
    /\ extracted[1].result.imports # <<>>
    /\ OnAstPath(extracted[2])
    /\ warnings = <<>>
    /\ options = [fix |-> FALSE]
    /\ disk = [packageJson |-> config.packageJson, writes |-> 0]
    /\ fixResult = <<>>

\* the records of the files of the log that did not throw, in order
RECURSIVE RecordsOfOthers(_)
RecordsOfOthers(log) ==
    IF log = <<>> THEN <<>>
    ELSE (IF log[1].content.readable THEN log[1].result.imports ELSE <<>>)
         \o RecordsOfOthers(Tail(log))

\* C20: a file whose extraction throws contributes no record, the scan
\* reaches every file and returns, and the records are exactly those of
\* the other files, before and after it, in the order of the files.
C20_Isolation ==
    /\ \A i \in 1..Len(extracted) :
          /\ extracted[i].filePath = files[i]
          /\ ~extracted[i].content.readable =>
                /\ extracted[i].result.threw
                /\ \A j \in 1..Len(allImports) :
                      allImports[j].filePath # files[i]
    /\ allImports = RecordsOfOthers(extracted)
    /\ Scanned => Len(extracted) = Len(files)

C20_Witness ==
    /\ Scanned
    /\ Len(files) = 3
    /\ extracted[2].content = Unreadable
    /\ Len(allImports) = 3
    /\ allImports[1].filePath = files[1]
    /\ allImports[2].filePath = files[3]
    /\ warnings = <<files[2]>>

\* C24: when '.' is a configured source directory and no other source
\* directory holds the file, the file is under source iff it has no
\* subdirectory component: a plain file at the root is production, and a
\* file in a subdirectory is not classified isProduction.
C24_RootSourceDirectory ==
    \A c \in Range(classified) :
       (/\ DotDir \in Range(config.sourceDirs)
        /\ ~\E i \in 1..Len(config.sourceDirs) :
               /\ config.sourceDirs[i] # DotDir
               /\ LiesUnder(c.filePath, config.sourceDirs[i])) =>
          /\ Len(c.filePath.dir) >= 1 => c.result.isProduction = FALSE
          /\ (/\ Len(c.filePath.dir) = 0
              /\ ~BuildRule(c.filePath)
              /\ ~TestRule(c.filePath)
              /\ c.filePath.base \notin ConfigStyleNames) =>
                c.result.isProduction = TRUE

C24_Witness ==
    \E c \in Range(classified) :
       /\ config.sourceDirs = <<DotDir>>
       /\ config.testDirs = <<<<"test">>>>
       /\ c.filePath = File(<<"lib", "lib">>, <<"app", "ts">>)
       /\ c.result.isProduction = TRUE
       /\ c.result.reason = <<"File is in source directory">>

\* C25: no verdict carries the reason of the last branch of the decision:
\* a verdict with records that is used in production is decided by the
\* type-only branch or by the runtime branch.
C25_FallbackUnreachable ==
    Analyzed =>
       \A i \in 1..Len(AllVerdicts) :
          LET v == AllVerdicts[i]
          IN  /\ ToLowerCase(v.reason) # "used in production code"
              /\ v.usedInProduction =>
                    ToLowerCase(v.reason) \in
                       {"only type-only imports in production code",
                        "has runtime imports in production code"}

C25_Witness ==
    /\ Analyzed
    /\ \E i \in 1..Len(AllVerdicts) :
          /\ AllVerdicts[i].usedInProduction
          /\ AllVerdicts[i].usedInDev
          /\ Len(AllVerdicts[i].imports) = MaxRecords
          /\ AllVerdicts[i].reason =
                "Only type-only imports in production code"

\* C27: onlyTypeImports of a verdict is true exactly when the package has
\* at least one record and all its records are type-only.
C27_OnlyTypeImports ==
    Analyzed =>
       \A i \in 1..Len(AllVerdicts) :
          LET v == AllVerdicts[i]
          IN  v.onlyTypeImports <=>
                 /\ RecordsOf(v.packageName) # {}
                 /\ \A j \in RecordsOf(v.packageName) :
                       allImports[j].isTypeOnly

C27_Witness ==
    /\ Analyzed
    /\ config.sourceDirs = <<<<"src">>>>
    /\ config.testDirs = <<<<"test">>>>
    /\ allImports =
          <<[packageName |-> "lodash", isTypeOnly |-> FALSE,
             filePath |-> ScriptTs, line |-> 1, column |-> 0]>>
    /\ \E i \in 1..Len(AllVerdicts) :
          /\ AllVerdicts[i].packageName = "lodash"
          /\ AllVerdicts[i].onlyTypeImports = TRUE

\* the file of the record is classified as test, config or build
InDevFile(imp) ==
    LET c == classifyFile(imp.filePath, config)
    IN  c.isTest \/ c.isConfig \/ c.isBuild

\* C28: a verdict with records has usedInProduction or usedInDev, and a
\* verdict with the reason 'only used in dev/test/config files' has
\* usedInDev, all its records being in test, config or build files.
C28_UsedSomewhere ==
    Analyzed =>
       \A i \in 1..Len(AllVerdicts) :
          LET v == AllVerdicts[i]
          IN  v.imports # <<>> =>
                 /\ v.usedInProduction \/ v.usedInDev
                 /\ ToLowerCase(v.reason) =
                       "only used in dev/test/config files" =>
                          /\ v.usedInDev
                          /\ \A j \in 1..Len(v.imports) :
                                InDevFile(v.imports[j])

C28_Witness ==
    /\ Analyzed
    /\ config.sourceDirs = <<<<"src">>>>
    /\ config.testDirs = <<<<"test">>>>
    /\ \E i \in 1..Len(analysisResult.packagesToMove) :
          LET v == analysisResult.packagesToMove[i]
          IN  /\ Len(v.imports) = 1
              /\ v.imports[1].filePath = ScriptTs
              /\ v.imports[1].isTypeOnly
              /\ ~v.usedInDev
              /\ ~v.usedInProduction
              /\ v.reason = "Only used in dev/test/config files"

\* C23: with a manifest that has no dependencies field, a call of
\* analyzeDependencies returns empty lists and zero counts whatever the
\* records, and the command line ends without scanning a file or analysing.
C23_NoDependenciesField ==
    ~config.packageJson.hasDependencies =>
       /\ pc \notin {"scan", "report"}
       /\ pc = "done" => files = <<>> /\ fileIdx = 1 /\ allImports = <<>>
       /\ pc = "called" =>
             /\ analysisResult.packagesToMove = <<>>
             /\ analysisResult.packagesToKeep = <<>>
             /\ analysisResult.totalDependencies = 0
             /\ analysisResult.canMoveCount = 0

C23_Witness ==
    /\ ~config.packageJson.hasDependencies
    /\ pc = "called"
    /\ Len(allImports) = MaxRecords
    /\ \E i \in 1..Len(allImports) : allImports[i].filePath = AppTs
    /\ analysisResult.totalDependencies = 0

\* the entries of a dependency map
Entries(obj) == Range(obj)

\* the names of a dependency map
Names(obj) == {entry.name : entry \in Range(obj)}

\* C21: every listed package that is in dependencies is removed from
\* dependencies, is in devDependencies with the version it had, and is
\* reported in moved; a listed package that is not in dependencies is not
\* reported and leaves devDependencies as it was; the entries that are not
\* listed are unchanged.
C21_MovePackages ==
    \A e \in Range(fixResult) :
       LET before == config.packageJson
           listed == Range(e.packagesToMove)
       IN  /\ \A d \in Entries(before.dependencies) :
                IF d.name \in listed
                THEN /\ d.name \notin Names(e.updated.dependencies)
                     /\ d \in Entries(e.updated.devDependencies)
                     /\ d \in Range(e.moved)
                ELSE d \in Entries(e.updated.dependencies)
           /\ \A n \in listed \ Names(before.dependencies) :
                /\ n \notin {m.name : m \in Range(e.moved)}
                /\ \A d \in Entries(e.updated.devDependencies) :
                      d.name = n => d \in Entries(before.devDependencies)
           /\ \A d \in Entries(before.devDependencies) :
                d.name \notin listed =>
                   d \in Entries(e.updated.devDependencies)
           /\ Entries(e.updated.dependencies)
                 \subseteq Entries(before.dependencies)
           /\ Entries(e.updated.devDependencies)
                 \subseteq Entries(before.devDependencies)
                           \cup Entries(before.dependencies)

C21_Witness ==
    \E e \in Range(fixResult) :
       /\ config.packageJson.dependencies = <<Dep("lodash", ""), TypesNode>>
       /\ e.packagesToMove = <<"lodash", "@types/node">>
       /\ e.moved = <<[name |-> "@types/node", version |-> "^20.0.0"]>>
       /\ e.updated.dependencies = <<Dep("lodash", "")>>

\* the run has ended after moving at least one package
FixedSome ==
    /\ pc = "done"
    /\ fixResult # <<>>
    /\ fixResult[1].moved # <<>>

\* C22: after a --fix run that moved at least one package, package.json on
\* disk has none of the moved packages in dependencies, has each of them in
\* devDependencies, and is otherwise as it was.
C22_PersistedManifest ==
    FixedSome =>
       LET before == config.packageJson
           after == disk.packageJson
           moved == Range(fixResult[1].moved)
           movedNames == {m.name : m \in moved}
       IN  /\ \A m \in moved :
                /\ m.name \notin Names(after.dependencies)
                /\ m \in Entries(after.devDependencies)
           /\ after.name = before.name
           /\ \A d \in Entries(before.dependencies) :
                d.name \notin movedNames => d \in Entries(after.dependencies)
           /\ \A d \in Entries(before.devDependencies) :
                d.name \notin movedNames =>
                   d \in Entries(after.devDependencies)

C22_Witness ==
    /\ FixedSome
    /\ config.packageJson.dependencies = <<Lodash>>
    /\ fixResult[1].moved = <<[name |-> "lodash", version |-> "^4.0.0"]>>
    /\ fixResult[1].updated.hasDependencies = FALSE
    /\ disk.writes = 1
    /\ Lodash \in Entries(disk.packageJson.dependencies)
    /\ Lodash \in Entries(disk.packageJson.devDependencies)

\* C26: package.json is written only by a run with --fix that moved at
\* least one package; without --fix, with nothing to move, and when no
\* listed package was moved, the file is as it was.
C26_WrittenOnlyWhenMoved ==
    /\ disk.writes # 0 =>
          /\ options.fix
          /\ analysisResult.canMoveCount # 0
          /\ fixResult # <<>>
          /\ fixResult[1].moved # <<>>
    /\ (\/ ~options.fix
        \/ analysisResult.canMoveCount = 0
        \/ fixResult = <<>>
        \/ fixResult[1].moved = <<>>) =>
          /\ disk.writes = 0
          /\ disk.packageJson = config.packageJson

C26_Witness ==
    /\ pc = "done"
    /\ options.fix
    /\ analysisResult.canMoveCount # 0
    /\ fixResult # <<>>
    /\ fixResult[1].packagesToMove = <<"lodash">>
    /\ fixResult[1].moved = <<>>
    /\ disk.writes = 0

=============================================================================
